---- MODULE Spec2Model ----
(***************************************************************************)
(* Chillers dashboard: chiller export -> normalized samples -> monthly     *)
(* history -> estimates -> accuracy ledger -> bias for the next estimates. *)
(*                                                                         *)
(* Numbers.  Timestamps are whole minutes since 1 January of BaseYear, in  *)
(* a calendar of 30-day months.  Power is in kW, a sampling step in        *)
(* minutes; the aggregate keeps energy in kW.min (kWh * 60) and hours in   *)
(* minutes, which is exact.  The tables kept on disk (history, estimates,  *)
(* ledger) hold floats, modelled as fixed point in hundredths (the history *)
(* table is not rounded by the code: its cells are taken to be exact in    *)
(* hundredths); percentages are in hundredths of a percent.                *)
(* Months are their index 1..12 in MESES_ORDEM.                            *)
(***************************************************************************)
EXTENDS Integers, Sequences, FiniteSets, TLC

VARIABLES
    chillerFile,   \* dados_cummins/Dados do Chiller.xlsx
    transNorm,     \* _transicoes/Chiller_amostras_normalizadas.csv
    tick,          \* file-system clock (modification times)
    amostras,      \* the DataFrame returned by the last carregar_amostras_chiller
    origem,        \* the branch of carregar_amostras_chiller that produced it
    monthly,       \* the DataFrame returned by the last agregar_consumo_e_horas_chiller
    limiar,        \* the potencia_min_kw of that call
    pc,            \* position of the running script
    arg,           \* argument of the function under test (function specifications)
    res,           \* its result
    entrada,       \* CHILLERS.xlsx waiting in BASE_DIR
    fatorOk,       \* whether the CO2 factor file is there with its columns
    relogio,       \* datetime.today()
    hist,          \* dados_cummins/Tabela_Historico_Tratada.xlsx
    est,           \* dados_cummins/Estimativa_Consumo_Consolidado.csv
    ledger,        \* dados_cummins/Historico_Precisao_Estimativas.csv
    execs,         \* completed executions of Atualizar_Dados.py
    ledgerInicio,  \* history: the ledger when the current execution started
    execAnterior,  \* history: the three tables left by the previous execution
    mudou,         \* history: an input or the clock changed since then
    legado,        \* history: the ledger found by the first execution
    artefato,      \* an output file of a stage (dados_cummins/<name>)
    pasta,         \* its backups in dados_cummins/_backup, by timestamp
    segundo,       \* datetime.now(), in seconds
    ultima         \* history: the last overwrite of the output file

normVars == <<chillerFile, transNorm, tick, amostras, origem, monthly, limiar>>
fnVars == <<arg, res>>
pipeVars == <<entrada, fatorOk, relogio, hist, est, ledger, execs, ledgerInicio, execAnterior,
              mudou, legado>>
bkVars == <<artefato, pasta, segundo, ultima>>

vars == <<chillerFile, transNorm, tick, amostras, origem, monthly, limiar, pc, arg, res,
          entrada, fatorOk, relogio, hist, est, ledger, execs, ledgerInicio, execAnterior,
          mudou, legado, artefato, pasta, segundo, ultima>>

----------------------------------------------------------------------------
(* Bounds *)

MaxRows == 3
MaxDts == 4
MaxExecs == 2
MaxAnos == 4
BaseYear == 2023

MonthSpan == 30 * 24 * 60

(* Missing values *)
NaT == -1
NaN == -999999

----------------------------------------------------------------------------
(* Sequence helpers *)

Range(s) == {s[i] : i \in DOMAIN s}

RECURSIVE SumSeq(_)
SumSeq(s) == IF s = <<>> THEN 0 ELSE Head(s) + SumSeq(Tail(s))

RECURSIVE MapRows(_, _)
MapRows(F(_), s) == IF s = <<>> THEN <<>> ELSE <<F(Head(s))>> \o MapRows(F, Tail(s))

Abs(x) == IF x < 0 THEN 0 - x ELSE x

\* insert r into the sequence s, sorted by Key, after the elements with an equal key
RECURSIVE InsertBy(_, _, _)
InsertBy(Key(_), r, s) ==
    IF s = <<>> THEN <<r>>
    ELSE IF Key(r) < Key(Head(s)) THEN <<r>> \o s
    ELSE <<Head(s)>> \o InsertBy(Key, r, Tail(s))

\* DataFrame.sort_values(col): ascending, equal keys in their input order
RECURSIVE SortBy(_, _)
SortBy(Key(_), s) ==
    IF s = <<>> THEN <<>>
    ELSE InsertBy(Key, s[Len(s)], SortBy(Key, SubSeq(s, 1, Len(s) - 1)))

RECURSIVE SortedSeqOfSet(_)
SortedSeqOfSet(S) ==
    IF S = {} THEN <<>>
    ELSE LET m == CHOOSE x \in S : \A y \in S : x <= y
         IN <<m>> \o SortedSeqOfSet(S \ {m})

----------------------------------------------------------------------------
(* Calendar *)

MESES_ORDEM == <<"Janeiro", "Fevereiro", "Marco", "Abril", "Maio", "Junho",
                 "Julho", "Agosto", "Setembro", "Outubro", "Novembro", "Dezembro">>

\* Series.dt.year / Series.dt.month of a valid timestamp
AnoDe(ts) == BaseYear + ((ts \div MonthSpan) \div Len(MESES_ORDEM))
MesDe(ts) == ((ts \div MonthSpan) % Len(MESES_ORDEM)) + 1

----------------------------------------------------------------------------
(* Schema normalizer *)

\* a normalized sample: the columns dt, Pot_Elet_KW, Pot_Frig_KW, COP
Amostra(r, pe) == [dt |-> r.dt, pe |-> pe, pf |-> r.pf, cop |-> r.cop]

KeyDt(r) == r.dt
TemDt(r) == r.dt # NaT

MinTokens == 6

MaxNtok(rows) == CHOOSE n \in {r.ntok : r \in Range(rows)} :
                    \A r \in Range(rows) : r.ntok <= n

\* rows of whitespace-separated tokens -> samples.  A row of the export is
\* [dt, pe, pf, cop, ntok]: its first two tokens parse to dt (NaT when they do
\* not), its last three tokens are pf, pe, cop, and it has ntok tokens.
converter_tokens_para_amostras_chiller(linhas) ==
    LET rows == SelectSeq(linhas, LAMBDA r : r.ntok >= MinTokens)
        n == MaxNtok(rows)
        \* the power is read at column n - 2 of every row: a shorter row has
        \* no token there
        Parse(r) == IF r.ntok = n THEN Amostra(r, r.pe)
                    ELSE [dt |-> r.dt, pe |-> NaN, pf |-> NaN, cop |-> NaN]
    IN IF rows = <<>> THEN <<>>
       ELSE SortBy(KeyDt, SelectSeq(MapRows(Parse, rows), TemDt))

\* the table converter without its sort_values("dt")
converter_tabela_sem_ordenar(tab) ==
    IF ~tab.cElet THEN <<>> ELSE SelectSeq(tab.rows, LAMBDA r : r.dt # NaT)

\* a table with named columns -> samples.  tab.cElet, tab.cFrig, tab.cCop say
\* which of the three columns the header matching resolves, tab.suspeito is
\* achatado_suspeito.
converter_tabela_para_amostras_chiller(tab) ==
    LET Parse(r) == [dt |-> r.dt, pe |-> r.pe,
                     pf |-> IF tab.cFrig THEN r.pf ELSE NaN,
                     cop |-> IF tab.cCop THEN r.cop ELSE NaN]
    IN IF (~tab.cElet /\ ~tab.cFrig /\ ~tab.cCop) \/ tab.suspeito
         THEN converter_tokens_para_amostras_chiller(tab.rows)
       ELSE IF ~tab.cElet THEN <<>>
       ELSE SortBy(KeyDt, SelectSeq(MapRows(Parse, tab.rows), TemDt))

----------------------------------------------------------------------------
(* Sampling-rate estimator *)

candidatos == <<1, 5, 10, 15, 30, 60>>

MaxDelta == 60

\* Series.diff() in minutes, first element dropped; a difference with NaT is NaN
Deltas(dts) ==
    [i \in 1..(Len(dts) - 1) |->
        IF dts[i] = NaT \/ dts[i + 1] = NaT THEN NaN ELSE dts[i + 1] - dts[i]]

\* the filter without its upper limit: gaps count as sampling deltas
DeltaSemLimite(d) == d # NaN /\ d > 0

DeltaValido(d) == d # NaN /\ d > 0 /\ d <= MaxDelta

\* twice the median of a non-empty sequence
Mediana2(s) ==
    LET o == SortBy(LAMBDA x : x, s)
        n == Len(o)
    IN IF n % 2 = 1 THEN 2 * o[(n + 1) \div 2] ELSE o[n \div 2] + o[(n \div 2) + 1]

\* numpy.argmin: the first index of a minimal element
ArgMin(s) == CHOOSE i \in DOMAIN s :
                /\ \A j \in DOMAIN s : s[i] <= s[j]
                /\ \A j \in 1..(i - 1) : s[j] > s[i]

estimar_intervalo_de_amostragem_minutos(dts) ==
    LET deltas == SelectSeq(Deltas(dts), DeltaValido)
        med2 == Mediana2(deltas)
        dist == [i \in DOMAIN candidatos |-> Abs(2 * candidatos[i] - med2)]
    IN IF deltas = <<>> THEN 1 ELSE candidatos[ArgMin(dist)]

----------------------------------------------------------------------------
(* Transition files and the sample loader *)

NoFile == [exists |-> FALSE, rows |-> <<>>, mtime |-> 0]

COLUNAS_CHILLER_COMPLETO == 24

detectar_planilha_achatada(raw) == raw.ncols <= 2 /\ raw.achatada

\* rows with all the known columns, split by position: neither sorted nor
\* filtered on dt
separar_colunas_tokenizadas(raw) ==
    MapRows(LAMBDA r : Amostra(r, r.pe),
            SelectSeq(raw.rows, LAMBDA r : r.ntok >= COLUNAS_CHILLER_COMPLETO))

\* the normalized samples criar_arquivo_transicao_chiller derives from the export
Normalizar(raw) ==
    IF detectar_planilha_achatada(raw) \/ raw.ncols = 1
      THEN LET wide == separar_colunas_tokenizadas(raw)
           IN IF wide # <<>> THEN [via |-> "separado", norm |-> wide]
              ELSE [via |-> "tokens",
                    norm |-> converter_tokens_para_amostras_chiller(raw.rows)]
      ELSE [via |-> "tabela", norm |-> converter_tabela_para_amostras_chiller(raw)]

\* the outcome of criar_arquivo_transicao_chiller once the samples n are
\* normalized
GravarTransicao(n, trans, escreve, agora) ==
    IF n.norm = <<>> \/ ~escreve
      THEN [path |-> FALSE, via |-> n.via, trans |-> trans]
    ELSE [path |-> TRUE, via |-> n.via,
          trans |-> [exists |-> TRUE, rows |-> n.norm, mtime |-> agora]]

\* writes Chiller_amostras_normalizadas.csv unless the samples are empty or the
\* write fails (escreve = FALSE); path = whether a file path is returned
criar_arquivo_transicao_chiller(raw, trans, escreve, agora) ==
    GravarTransicao(Normalizar(raw), trans, escreve, agora)

\* dt as read back from the CSV: an ISO timestamp parses to itself, an empty
\* cell to NaT
interpretar_datetime_intermediario(d) == IF d = NaT THEN NaT ELSE d

LerNormalizado(trans) ==
    MapRows(LAMBDA r : [r EXCEPT !.dt = interpretar_datetime_intermediario(r.dt)],
            trans.rows)

ComPasso(df) ==
    LET passo == estimar_intervalo_de_amostragem_minutos(MapRows(KeyDt, df))
    IN MapRows(LAMBDA r : [dt |-> r.dt, pe |-> r.pe, pf |-> r.pf, cop |-> r.cop,
                           step |-> passo], df)

\* the samples loaded once the transition file has been attempted (c): read
\* back from it, or converted directly from the export
CarregarApos(raw, c) ==
    [df |-> ComPasso(IF c.path THEN LerNormalizado(c.trans)
                     ELSE IF raw.ncols = 1
                       THEN converter_tokens_para_amostras_chiller(raw.rows)
                     ELSE converter_tabela_para_amostras_chiller(raw)),
     via |-> IF c.path THEN c.via ELSE "direto",
     trans |-> c.trans]

carregar_amostras_chiller(raw, trans, escreve, agora) ==
    IF ~raw.exists
      THEN [df |-> <<>>, via |-> "ausente", trans |-> trans]
    ELSE IF trans.exists /\ trans.mtime >= raw.mtime /\ LerNormalizado(trans) # <<>>
      THEN [df |-> ComPasso(LerNormalizado(trans)), via |-> "cache", trans |-> trans]
    ELSE CarregarApos(raw, criar_arquivo_transicao_chiller(raw, trans, escreve, agora))

----------------------------------------------------------------------------
(* Monthly aggregator *)

\* the threshold compared with >= instead of >
LigadoMaiorIgual(pe, potencia_min_kw) == (IF pe = NaN THEN 0 ELSE pe) >= potencia_min_kw

Ligado(pe, potencia_min_kw) == (IF pe = NaN THEN 0 ELSE pe) > potencia_min_kw

\* absolute month of a sample (groupby key (Ano, Mes))
ChaveMes(r) == r.dt \div MonthSpan

agregar_consumo_e_horas_chiller(parsed, potencia_min_kw) ==
    LET validas == SelectSeq(parsed, TemDt)    \* groupby drops the NaN keys
        kwh_linha(r) == IF Ligado(r.pe, potencia_min_kw) THEN r.pe * r.step ELSE 0
        h_linha(r) == IF Ligado(r.pe, potencia_min_kw) THEN r.step ELSE 0
        Grupo(k) == SelectSeq(validas, LAMBDA r : ChaveMes(r) = k)
        Linha(k) == [ano |-> BaseYear + (k \div Len(MESES_ORDEM)),
                     mes |-> (k % Len(MESES_ORDEM)) + 1,
                     kwmin |-> SumSeq(MapRows(kwh_linha, Grupo(k))),
                     hmin |-> SumSeq(MapRows(h_linha, Grupo(k)))]
    IN MapRows(Linha, SortedSeqOfSet({ChaveMes(r) : r \in Range(validas)}))

----------------------------------------------------------------------------
(* Fixed point *)

\* n / d rounded to the nearest integer, halves to the even one (d > 0)
RoundDiv(n, d) ==
    LET q == n \div d
        r == n % d
    IN IF 2 * r < d THEN q
       ELSE IF 2 * r > d THEN q + 1
       ELSE IF q % 2 = 0 THEN q ELSE q + 1

RECURSIVE ISqrtIn(_, _, _)
ISqrtIn(x, lo, hi) ==
    IF lo >= hi THEN lo
    ELSE LET mid == (lo + hi + 1) \div 2
         IN IF mid * mid <= x THEN ISqrtIn(x, mid, hi) ELSE ISqrtIn(x, lo, mid - 1)

\* the integer part of the square root of x >= 0
ISqrt(x) == ISqrtIn(x, 0, IF x < 40000 THEN x ELSE 40000)

Max2(a, b) == IF a >= b THEN a ELSE b

\* absolute month of (ano, mes), and back
MesAbs(ano, mes) == (ano - BaseYear) * Len(MESES_ORDEM) + (mes - 1)
AnoDoMesAbs(k) == BaseYear + (k \div Len(MESES_ORDEM))
MesDoMesAbs(k) == (k % Len(MESES_ORDEM)) + 1

----------------------------------------------------------------------------
(* History table (Tabela_Historico_Tratada.xlsx).  A row is                *)
(* [ano, mes, consumo, horas, pot, cop, temp, co2], in hundredths, NaN     *)
(* for an empty cell.                                                      *)

NoTable == [exists |-> FALSE, rows |-> <<>>]
NoHist == [exists |-> FALSE, temCO2 |-> FALSE, rows |-> <<>>]

\* monthly mean temperatures of the INMET file, in hundredths of a degree:
\* every month from January of BaseYear to the month of `hoje`
calcular_temperatura_media_mensal_inmet(hoje) ==
    [i \in 1..(MesAbs(hoje.ano, hoje.mes) + 1) |->
        [ano |-> AnoDoMesAbs(i - 1), mes |-> MesDoMesAbs(i - 1),
         temp |-> 1800 + 100 * (((i - 1) * 7) % 5)]]

\* kg of CO2 per kWh, in thousandths (Inventario_Fator_Medio_Anual_CO2_KWh.csv)
FatorCO2 == 40

\* the weighted mean of column col over the samples g, weights step_h where on
WeightedAvg(g, col, potencia_min_kw) ==
    LET w(r) == IF Ligado(r.pe, potencia_min_kw) THEN r.step ELSE 0
        xw(r) == IF r[col] = NaN THEN 0 ELSE r[col] * w(r)
        sw == SumSeq(MapRows(w, g))
    IN IF sw <= 0 THEN NaN ELSE RoundDiv(100 * SumSeq(MapRows(xw, g)), sw)

\* the consumption cell zero-filled when the month has no aggregate row
ConsumoZeroSeAusente(linhasMensais) ==
    IF linhasMensais = <<>> THEN 0 ELSE RoundDiv(100 * linhasMensais[1].kwmin, 60)

\* keys.merge(monthly, how = "left"): the consumption cell of a month, empty
\* when the aggregate has no row for it
ConsumoDoMes(linhasMensais) ==
    IF linhasMensais = <<>> THEN NaN ELSE RoundDiv(100 * linhasMensais[1].kwmin, 60)

\* the rows of the history table built from the samples, the aggregate and
\* the temperatures
LinhasHistorico(amostrasDf, mensal, temps, temFator, potencia_min_kw) ==
    LET validas == SelectSeq(amostrasDf, TemDt)
        chaves == {MesAbs(r.ano, r.mes) : r \in Range(temps)}
                    \cup {MesAbs(r.ano, r.mes) : r \in Range(mensal)}
                    \cup {ChaveMes(r) : r \in Range(validas)}
        Mensal(k) == SelectSeq(mensal, LAMBDA r : MesAbs(r.ano, r.mes) = k)
        Temp(k) == SelectSeq(temps, LAMBDA r : MesAbs(r.ano, r.mes) = k)
        Grupo(k) == SelectSeq(validas, LAMBDA r : ChaveMes(r) = k)
        Linha(k) ==
            LET consumo == ConsumoDoMes(Mensal(k))
            IN [ano |-> AnoDoMesAbs(k), mes |-> MesDoMesAbs(k),
                consumo |-> consumo,
                horas |-> IF Mensal(k) = <<>> THEN NaN
                          ELSE RoundDiv(100 * Mensal(k)[1].hmin, 60),
                pot |-> IF Grupo(k) = <<>> THEN NaN
                        ELSE WeightedAvg(Grupo(k), "pe", potencia_min_kw),
                cop |-> IF Grupo(k) = <<>> THEN NaN
                        ELSE WeightedAvg(Grupo(k), "cop", potencia_min_kw),
                temp |-> IF Temp(k) = <<>> THEN NaN ELSE Temp(k)[1].temp,
                co2 |-> IF ~temFator \/ consumo = NaN THEN NaN
                        ELSE RoundDiv(consumo * FatorCO2, 1000)]
    IN MapRows(Linha, SortedSeqOfSet(chaves))

\* what construir_tabela_historico_de_chiller leaves behind: c is the last
\* load, amostrasDf the samples of the first one
TabelaConstruida(amostrasDf, c, mensal, temps, temFator, potencia_min_kw) ==
    [amostras |-> c.df, via |-> c.via, trans |-> c.trans,
     mensal |-> mensal,
     escreve |-> temps # <<>> \/ mensal # <<>>,
     hist |-> [exists |-> TRUE, temCO2 |-> temFator,
               rows |-> LinhasHistorico(amostrasDf, mensal, temps, temFator,
                                        potencia_min_kw)]]

\* the aggregator loads the samples again (c2) and groups them
ConstruirAgregando(c1, c2, temps, temFator, potencia_min_kw) ==
    TabelaConstruida(c1.df, c2,
                     agregar_consumo_e_horas_chiller(c2.df, potencia_min_kw),
                     temps, temFator, potencia_min_kw)

\* after the first load c1: without samples the aggregate is empty
ConstruirApos(c1, raw, temps, temFator, potencia_min_kw, agora) ==
    IF c1.df = <<>>
      THEN TabelaConstruida(c1.df, c1, <<>>, temps, temFator, potencia_min_kw)
    ELSE ConstruirAgregando(c1, carregar_amostras_chiller(raw, c1.trans, TRUE, agora),
                            temps, temFator, potencia_min_kw)

\* construir_tabela_historico_de_chiller: loads the samples, aggregates them
\* (which loads them again), merges and writes the table.  The result names
\* everything the call leaves behind.
construir_tabela_historico_de_chiller(raw, trans, temps, temFator, potencia_min_kw, agora) ==
    ConstruirApos(carregar_amostras_chiller(raw, trans, TRUE, agora),
                  raw, temps, temFator, potencia_min_kw, agora)

----------------------------------------------------------------------------
(* Robust historical estimator *)

Nulo == [nulo |-> TRUE, num |-> 0, den |-> 1]

\* a rational num / den rounded to an integer, NaN when null
Arred(q) == IF q.nulo THEN NaN ELSE RoundDiv(q.num, q.den)

NaoNulos(df, coluna) == SelectSeq(df, LAMBDA r : r[coluna] # NaN)

\* four times Series.quantile(q4 / 4), linear interpolation, of sorted values v
Quantil4(v, q4) ==
    LET pos == q4 * (Len(v) - 1)
        j == pos \div 4
        f == pos % 4
    IN IF f = 0 THEN 4 * v[j + 1] ELSE 4 * v[j + 1] + f * (v[j + 2] - v[j + 1])

\* the non-null values of a column, ascending
ValoresOrdenados(df, coluna) ==
    SortBy(LAMBDA x : x, MapRows(LAMBDA r : r[coluna], NaoNulos(df, coluna)))

\* eight times the fence [Q1 - 1.5 IQR, Q3 + 1.5 IQR], from 4 Q1 and 4 Q3
Cerca8(q1, q3) == [inf |-> 2 * q1 - 3 * (q3 - q1), sup |-> 2 * q3 + 3 * (q3 - q1)]

\* eight times the fence of the non-null values of a column
Limites8(df, coluna) ==
    Cerca8(Quantil4(ValoresOrdenados(df, coluna), 1),
           Quantil4(ValoresOrdenados(df, coluna), 3))

\* the rows whose value lies inside the fence
DentroDosLimites(df, coluna, lim) ==
    SelectSeq(df, LAMBDA r : 8 * r[coluna] >= lim.inf /\ 8 * r[coluna] <= lim.sup)

MenorAno(df) == CHOOSE a \in {r.ano : r \in Range(df)} : \A r \in Range(df) : a <= r.ano

\* the weights counted from the first year of the month's rows instead of the
\* first year the filter retains
PesoDesdeOPrimeiroAno(df_mes, df_filtrado, ano) == Max2(1, (ano - MenorAno(df_mes)) + 1)

\* the weight of a retained row of year ano
Peso(df_mes, df_filtrado, ano) == Max2(1, (ano - MenorAno(df_filtrado)) + 1)

\* the recency-weighted mean of the retained rows: a rational, or Nulo
MediaPonderada(df_mes, df_filtrado, coluna) ==
    IF df_filtrado = <<>> THEN Nulo
    ELSE [nulo |-> FALSE,
          num |-> SumSeq(MapRows(LAMBDA r : r[coluna] * Peso(df_mes, df_filtrado, r.ano),
                                 df_filtrado)),
          den |-> SumSeq(MapRows(LAMBDA r : Peso(df_mes, df_filtrado, r.ano),
                                 df_filtrado))]

\* the IQR-trimmed, recency-weighted mean of a column over the rows df_mes
MediaDoMes(df_mes, coluna) ==
    IF df_mes = <<>> \/ NaoNulos(df_mes, coluna) = <<>> THEN Nulo
    ELSE MediaPonderada(df_mes,
                        DentroDosLimites(NaoNulos(df_mes, coluna), coluna,
                                         Limites8(df_mes, coluna)),
                        coluna)

\* the mean taken over the years up to and including ano_atual
MediaAteOAno(df, coluna, mes, ano_atual) ==
    MediaDoMes(SelectSeq(df, LAMBDA r : r.mes = mes /\ r.ano <= ano_atual), coluna)

\* the IQR-trimmed, recency-weighted mean of a column over the rows of month
\* mes of the years before ano_atual: a rational, or Nulo
media_historica_corrigida(df, coluna, mes, ano_atual) ==
    MediaDoMes(SelectSeq(df, LAMBDA r : r.mes = mes /\ r.ano < ano_atual), coluna)

\* (delta, trend %) of an estimate against its historical reference, both
\* rounded to 2 decimals; estimado is a rational, historico a rational
calcular_diferenca(estimado, historico) ==
    IF ~estimado.nulo /\ ~historico.nulo /\ historico.num # 0
      THEN LET difNum == estimado.num * historico.den - historico.num * estimado.den
               difDen == estimado.den * historico.den
           IN [delta |-> RoundDiv(difNum, difDen),
               tend |-> IF historico.num > 0
                          THEN RoundDiv(difNum * 10000, historico.num * estimado.den)
                          ELSE RoundDiv((0 - difNum) * 10000,
                                        (0 - historico.num) * estimado.den)]
      ELSE [delta |-> NaN, tend |-> NaN]

SemParcial == [tem |-> FALSE, consumo |-> NaN, dias |-> 0, diasMes |-> 0]

\* n times the population standard deviation of the values x
NStd(x) == ISqrt(Len(x) * SumSeq(MapRows(LAMBDA v : v * v, x)) - SumSeq(x) * SumSeq(x))

\* the band around esperado = eNum / eDen (NaN when eNaN) with std = nstd / n.
\* max(0, NaN) is 0 in Python; NaN + std and anything +- NaN are NaN
Banda(eNaN, eNum, eDen, n, nstd) ==
    IF eNaN \/ n = 0
      THEN [min |-> 0,
            esperado |-> IF eNaN THEN NaN ELSE RoundDiv(eNum, eDen),
            max |-> NaN]
    ELSE [min |-> Max2(0, RoundDiv(eNum * n - nstd * eDen, eDen * n)),
          esperado |-> RoundDiv(eNum, eDen),
          max |-> RoundDiv(eNum * n + nstd * eDen, eDen * n)]

\* the partial consumption tested for truth: a month that consumed 0 so far
\* falls back to the mean
BandaParcialSeNaoZero(x, p) ==
    IF p.tem /\ p.consumo # 0 /\ p.dias # 0 /\ p.diasMes # 0
      THEN Banda(p.consumo = NaN, p.consumo * p.diasMes, p.dias, Len(x), NStd(x))
    ELSE Banda(x = <<>>, SumSeq(x), Len(x), Len(x), NStd(x))

\* the band from the non-null consumptions x of the earlier years: the
\* partial consumption scaled to the whole month when there is one, their
\* mean otherwise
BandaDosValores(x, p) ==
    IF p.tem /\ p.dias # 0 /\ p.diasMes # 0
      THEN Banda(p.consumo = NaN, p.consumo * p.diasMes, p.dias, Len(x), NStd(x))
    ELSE Banda(x = <<>>, SumSeq(x), Len(x), Len(x), NStd(x))

\* the band (min, esperado, max) of a month from the consumption of that
\* month in the years before ano; p is the partial data of the current month
estimar_consumo_mensal(df, mes, ano, p) ==
    IF SelectSeq(df, LAMBDA r : r.mes = mes /\ r.ano < ano) = <<>>
      THEN [min |-> NaN, esperado |-> NaN, max |-> NaN]
    ELSE BandaDosValores(
            MapRows(LAMBDA r : r.consumo,
                    NaoNulos(SelectSeq(df, LAMBDA r : r.mes = mes /\ r.ano < ano),
                             "consumo")),
            p)

----------------------------------------------------------------------------
(* Bias-correction feedback loop.  A ledger row is [ano, mes, tipo,        *)
(* consReal, consEst, errCons, horasReal, horasEst, errHoras, tempReal,    *)
(* tempEst, errTemp, pot, fu, cop, co2].                                   *)

MinGlobal == 6
MinMensal == 3

\* Series.mean(): the mean of the non-null values, a rational; NaN (nan = TRUE)
\* when there is none
MediaErro(rows) ==
    LET v == MapRows(LAMBDA r : r.errCons, NaoNulos(rows, "errCons"))
    IN IF v = <<>> THEN [tem |-> TRUE, nan |-> TRUE, num |-> 0, den |-> 1]
       ELSE [tem |-> TRUE, nan |-> FALSE, num |-> SumSeq(v), den |-> Len(v)]

SemVies == [tem |-> FALSE, nan |-> FALSE, num |-> 0, den |-> 1]

\* (vies_global, vies_mensal) read from Historico_Precisao_Estimativas.csv
carregar_vies_historico(arquivo) ==
    LET df_hist == SelectSeq(arquivo.rows, LAMBDA r : r.tipo = "Real")
        DoMes(m) == SelectSeq(df_hist, LAMBDA r : r.mes = m)
        suficiente == arquivo.exists /\ Len(df_hist) >= MinGlobal
    IN [global |-> IF suficiente THEN MediaErro(df_hist) ELSE SemVies,
        mensal |-> [m \in DOMAIN MESES_ORDEM |->
                      IF suficiente /\ Len(DoMes(m)) >= MinMensal
                        THEN MediaErro(DoMes(m)) ELSE SemVies]]

\* the global bias for every month
ViesSempreGlobal(vies, mes) == vies.global

\* vies_mensal.get(mes_nome, vies_global)
ViesAjuste(vies, mes) == IF vies.mensal[mes].tem THEN vies.mensal[mes] ELSE vies.global

\* the bias subtracted instead of added
AplicarViesInvertido(esperado, v) ==
    IF ~v.tem \/ esperado = NaN THEN esperado
    ELSE IF v.nan THEN NaN
    ELSE RoundDiv(esperado * (10000 * v.den - v.num), 10000 * v.den)

\* round(consumo_corrigido * (1 + vies_ajuste / 100), 2) when both are not None
AplicarVies(esperado, v) ==
    IF ~v.tem \/ esperado = NaN THEN esperado
    ELSE IF v.nan THEN NaN
    ELSE RoundDiv(esperado * (10000 * v.den + v.num), 10000 * v.den)

----------------------------------------------------------------------------
(* Estimates (Estimativa_Consumo_Consolidado.csv) *)

DiasPorMes == <<31, 28, 31, 30, 31, 30, 31, 31, 30, 31, 30, 31>>

\* calendar.monthrange(ano, mes)[1]
monthrange(ano, mes) ==
    IF mes = 2 /\ ano % 4 = 0 /\ (ano % 100 # 0 \/ ano % 400 = 0) THEN 29
    ELSE DiasPorMes[mes]

Exato(v) == IF v = NaN THEN Nulo ELSE [nulo |-> FALSE, num |-> v, den |-> 1]

\* a row of the estimate table, the float columns rounded to 2 decimals
LinhaDe(ano, mes, tipo, banda, corrigido, temp_estim, temp_hist_corr, horas_estim, horas_hist_corr, dt, dh) ==
    [ano |-> ano, mes |-> mes, tipo |-> tipo,
     cmin |-> banda.min, cesp |-> banda.esperado, ccorr |-> corrigido,
     cmax |-> banda.max,
     tempEst |-> Arred(temp_estim), tempHist |-> Arred(temp_hist_corr),
     dTemp |-> dt.delta, tTemp |-> dt.tend,
     horasEst |-> Arred(horas_estim), horasHist |-> Arred(horas_hist_corr),
     dHoras |-> dh.delta, tHoras |-> dh.tend]

\* the bias applied to the rows of every type
LinhaComViesSempre(ano, mes, tipo, banda, vies, temp_estim, temp_hist_corr, horas_estim, horas_hist_corr) ==
    LinhaDe(ano, mes, tipo, banda,
            AplicarVies(banda.esperado, ViesAjuste(vies, mes)),
            temp_estim, temp_hist_corr, horas_estim, horas_hist_corr,
            calcular_diferenca(temp_estim, temp_hist_corr),
            calcular_diferenca(horas_estim, horas_hist_corr))

\* the bias applies to the rows of type Projetado only
LinhaEstimativa(ano, mes, tipo, banda, vies, temp_estim, temp_hist_corr, horas_estim, horas_hist_corr) ==
    LinhaDe(ano, mes, tipo, banda,
            IF tipo = "Projetado"
              THEN AplicarVies(banda.esperado, ViesAjuste(vies, mes))
              ELSE banda.esperado,
            temp_estim, temp_hist_corr, horas_estim, horas_hist_corr,
            calcular_diferenca(temp_estim, temp_hist_corr),
            calcular_diferenca(horas_estim, horas_hist_corr))

\* the current month counted with the past ones
TipoSemCorrigido(idx, mes_atual) ==
    IF idx <= mes_atual THEN "Real" ELSE "Projetado"

\* the type of the row of month idx when the current month is mes_atual
TipoDoMes(idx, mes_atual) ==
    IF idx < mes_atual THEN "Real"
    ELSE IF idx = mes_atual THEN "Corrigido" ELSE "Projetado"

\* a past month estimated from the earlier years even when it was measured
BandaSemReal(df, hoje, idx, tipo, df_mes_atual) ==
    IF tipo = "Corrigido"
      THEN estimar_consumo_mensal(df, idx, hoje.ano,
              [tem |-> df_mes_atual # <<>>,
               consumo |-> IF df_mes_atual # <<>> THEN df_mes_atual[1].consumo ELSE NaN,
               dias |-> hoje.dia,
               diasMes |-> monthrange(hoje.ano, hoje.mes)])
    ELSE estimar_consumo_mensal(df, idx, hoje.ano, SemParcial)

\* a past month scaled like the current one, as if hoje.dia days of it had
\* been measured
BandaProporcional(df, hoje, idx, tipo, df_mes_atual) ==
    IF tipo \in {"Real", "Corrigido"}
      THEN estimar_consumo_mensal(df, idx, hoje.ano,
              [tem |-> df_mes_atual # <<>>,
               consumo |-> IF df_mes_atual # <<>> THEN df_mes_atual[1].consumo ELSE NaN,
               dias |-> hoje.dia,
               diasMes |-> monthrange(hoje.ano, idx)])
    ELSE estimar_consumo_mensal(df, idx, hoje.ano, SemParcial)

\* consumo_dict of month idx of the current year
BandaVigente(df, hoje, idx, tipo, df_mes_atual) ==
    IF tipo = "Real"
      THEN IF df_mes_atual # <<>> /\ df_mes_atual[1].consumo # NaN
             THEN [min |-> df_mes_atual[1].consumo,
                   esperado |-> df_mes_atual[1].consumo,
                   max |-> df_mes_atual[1].consumo]
             ELSE estimar_consumo_mensal(df, idx, hoje.ano, SemParcial)
    ELSE IF tipo = "Corrigido"
      THEN estimar_consumo_mensal(df, idx, hoje.ano,
              [tem |-> df_mes_atual # <<>>,
               consumo |-> IF df_mes_atual # <<>> THEN df_mes_atual[1].consumo ELSE NaN,
               dias |-> hoje.dia,
               diasMes |-> monthrange(hoje.ano, hoje.mes)])
    ELSE estimar_consumo_mensal(df, idx, hoje.ano, SemParcial)

\* the cell of the current-year row for a month of any type that has one
EstimadoDaCelula(tipo, df_mes_atual, coluna, hist_corr) ==
    IF df_mes_atual # <<>> THEN Exato(df_mes_atual[1][coluna])
    ELSE IF tipo # "Real" THEN hist_corr
    ELSE Nulo

\* temp_estim / horas_estim: the cell of the current-year row for a Real
\* month, the historical reference otherwise
Estimado(tipo, df_mes_atual, coluna, hist_corr) ==
    IF tipo # "Real" THEN hist_corr
    ELSE IF df_mes_atual # <<>> THEN Exato(df_mes_atual[1][coluna])
    ELSE Nulo

LinhaVigente(df, hoje, vies, idx, tipo, df_mes_atual, temp_hist_corr, horas_hist_corr) ==
    LinhaEstimativa(hoje.ano, idx, tipo,
                    BandaVigente(df, hoje, idx, tipo, df_mes_atual), vies,
                    Estimado(tipo, df_mes_atual, "temp", temp_hist_corr), temp_hist_corr,
                    Estimado(tipo, df_mes_atual, "horas", horas_hist_corr), horas_hist_corr)

estimar_consumo_ano_vigente(df, hoje, vies) ==
    [idx \in DOMAIN MESES_ORDEM |->
        LinhaVigente(df, hoje, vies, idx, TipoDoMes(idx, hoje.mes),
                     SelectSeq(df, LAMBDA r : r.ano = hoje.ano /\ r.mes = idx),
                     media_historica_corrigida(df, "temp", idx, hoje.ano),
                     media_historica_corrigida(df, "horas", idx, hoje.ano))]

LinhaSeguinte(ano_futuro, idx, banda, vies, temp_hist_corr, horas_hist_corr) ==
    LinhaEstimativa(ano_futuro, idx, "Projetado", banda, vies,
                    temp_hist_corr, temp_hist_corr, horas_hist_corr, horas_hist_corr)

estimar_consumo_ano_seguinte(df, hoje, vies) ==
    [idx \in DOMAIN MESES_ORDEM |->
        LinhaSeguinte(hoje.ano + 1, idx,
                      estimar_consumo_mensal(df, idx, hoje.ano + 1, SemParcial), vies,
                      media_historica_corrigida(df, "temp", idx, hoje.ano),
                      media_historica_corrigida(df, "horas", idx, hoje.ano))]

\* the two tables concatenated
TabelaEstimativas(historico, hoje, vies) ==
    [exists |-> TRUE,
     rows |-> estimar_consumo_ano_vigente(historico.rows, hoje, vies)
                \o estimar_consumo_ano_seguinte(historico.rows, hoje, vies)]

\* the table gerar_estimativas writes from the history table and the ledger
gerar_estimativas(historico, precisao, hoje) ==
    TabelaEstimativas(historico, hoje, carregar_vies_historico(precisao))

----------------------------------------------------------------------------
(* Accuracy validator (Historico_Precisao_Estimativas.csv) *)

\* the error against a real value of 0 taken as 0 %
ErroZeroSeRealZero(estimado, real) ==
    IF estimado = NaN \/ real = NaN THEN NaN
    ELSE IF real = 0 THEN 0
    ELSE IF real > 0 THEN RoundDiv((estimado - real) * 10000, real)
    ELSE RoundDiv((real - estimado) * 10000, 0 - real)

\* (estimado - real) / real * 100 in hundredths of a percent; NaN when a
\* value is missing or the denominator is 0
ErroPct(estimado, real) ==
    IF estimado = NaN \/ real = NaN \/ real = 0 THEN NaN
    ELSE IF real > 0 THEN RoundDiv((estimado - real) * 10000, real)
    ELSE RoundDiv((real - estimado) * 10000, 0 - real)

FatorUtilizacao(consumo, pot, horas) ==
    IF consumo = NaN \/ pot = NaN \/ horas = NaN \/ pot * horas = 0 THEN NaN
    ELSE RoundDiv(consumo * 10000, pot * horas)

LinhaAcuracia(h, e) ==
    [ano |-> h.ano, mes |-> h.mes, tipo |-> e.tipo,
     consReal |-> h.consumo, consEst |-> e.cesp,
     errCons |-> ErroPct(e.cesp, h.consumo),
     horasReal |-> h.horas, horasEst |-> e.horasEst,
     errHoras |-> ErroPct(e.horasEst, h.horas),
     tempReal |-> h.temp, tempEst |-> e.tempEst,
     errTemp |-> ErroPct(e.tempEst, h.temp),
     pot |-> h.pot, fu |-> FatorUtilizacao(h.consumo, h.pot, h.horas),
     cop |-> h.cop, co2 |-> h.co2]

RECURSIVE Flatten(_)
Flatten(ss) == IF ss = <<>> THEN <<>> ELSE Head(ss) \o Flatten(Tail(ss))

\* the row of a month of the history table that no estimate matches
LinhaSemEstimativa(h) ==
    LinhaAcuracia(h, [tipo |-> "", cesp |-> NaN, horasEst |-> NaN, tempEst |-> NaN])

\* the merge with how = "left": every month of the history table has rows
JuncaoEsquerda(df_real, df_estimado) ==
    LET Pares(h) ==
          IF SelectSeq(df_estimado, LAMBDA e : e.ano = h.ano /\ e.mes = h.mes) = <<>>
            THEN <<LinhaSemEstimativa(h)>>
          ELSE MapRows(LAMBDA e : LinhaAcuracia(h, e),
                       SelectSeq(df_estimado,
                                 LAMBDA e : e.ano = h.ano /\ e.mes = h.mes))
    IN SortBy(LAMBDA r : MesAbs(r.ano, r.mes), Flatten(MapRows(Pares, df_real)))

\* the merge with how = "right": every month of the estimate table has rows
JuncaoDireita(df_real, df_estimado) ==
    LET Pares(e) ==
          IF SelectSeq(df_real, LAMBDA h : e.ano = h.ano /\ e.mes = h.mes) = <<>>
            THEN <<LinhaAcuracia([ano |-> e.ano, mes |-> e.mes, consumo |-> NaN,
                                  horas |-> NaN, pot |-> NaN, cop |-> NaN,
                                  temp |-> NaN, co2 |-> NaN], e)>>
          ELSE MapRows(LAMBDA h : LinhaAcuracia(h, e),
                       SelectSeq(df_real, LAMBDA h : e.ano = h.ano /\ e.mes = h.mes))
    IN SortBy(LAMBDA r : MesAbs(r.ano, r.mes), Flatten(MapRows(Pares, df_estimado)))

\* pd.merge(df_real, df_estimado, on = [Ano, Mes], how = "inner"), one output
\* row per pair of rows with the same key, then sort_values([Ano, Mes])
JuncaoAcuracia(df_real, df_estimado) ==
    LET Pares(h) == MapRows(LAMBDA e : LinhaAcuracia(h, e),
                            SelectSeq(df_estimado,
                                      LAMBDA e : e.ano = h.ano /\ e.mes = h.mes))
    IN SortBy(LAMBDA r : MesAbs(r.ano, r.mes), Flatten(MapRows(Pares, df_real)))

\* the ledger with the new rows appended to the previous ones
GravarAcrescentando(anterior, df_final) ==
    [exists |-> TRUE, rows |-> anterior.rows \o df_final]

\* df_final.to_csv(caminho_saida): the file holds df_final and nothing else
GravarAcuracia(anterior, df_final) == [exists |-> TRUE, rows |-> df_final]

\* atualizar_historico_acuracia: the ledger left on disk.  Without the
\* history or the estimates nothing is written; a history table without the
\* CO2 column makes the column selection raise, which is logged and leaves
\* the ledger as it was.
atualizar_historico_acuracia(historico, estimativas, precisao) ==
    IF ~historico.exists \/ ~estimativas.exists THEN precisao
    ELSE IF ~historico.temCO2 THEN precisao
    ELSE GravarAcuracia(precisao, JuncaoAcuracia(historico.rows, estimativas.rows))

----------------------------------------------------------------------------
(* The script Atualizar_Dados.py, run again and again *)

\* the script skipping the estimate generation that follows the validator
ProximoSemSegundaEstimativa(passo) ==
    CASE passo = "mover" -> "historico"
      [] passo = "historico" -> "estimativas1"
      [] passo = "estimativas1" -> "acuracia"
      [] passo = "acuracia" -> "fim"
      [] OTHER -> "fim"

\* the order of the local steps of __main__
Proximo(passo) ==
    CASE passo = "mover" -> "historico"
      [] passo = "historico" -> "estimativas1"
      [] passo = "estimativas1" -> "acuracia"
      [] passo = "acuracia" -> "estimativas2"
      [] OTHER -> "fim"

\* no output file and no backup yet
SemBackup ==
    /\ artefato = [exists |-> FALSE, versao |-> 0, integro |-> TRUE]
    /\ pasta = {}
    /\ segundo = 0
    /\ ultima = [n |-> 0, antes |-> [exists |-> FALSE, versao |-> 0, integro |-> TRUE],
                 pastaAntes |-> {}, ts |-> 0, copia |-> FALSE, escrita |-> "nenhuma"]

\* the value of the pipeline variables in the specifications without it
PipelineParado ==
    /\ entrada = NoFile
    /\ fatorOk = TRUE
    /\ relogio = [ano |-> BaseYear, mes |-> 1, dia |-> 1]
    /\ hist = NoHist
    /\ est = NoTable
    /\ ledger = NoTable
    /\ execs = 0
    /\ ledgerInicio = NoTable
    /\ execAnterior = <<NoHist, NoTable, NoTable>>
    /\ mudou = FALSE
    /\ legado = NoTable

\* neither the pipeline nor the backups take part
SemPipeline == PipelineParado /\ SemBackup

Iniciar ==
    /\ pc = "parado"
    /\ execs < MaxExecs
    /\ pc' = "mover"
    /\ ledgerInicio' = ledger
    /\ UNCHANGED <<bkVars, legado, normVars, fnVars, entrada, fatorOk, relogio, hist, est, ledger, execs,
                   execAnterior, mudou>>

\* mover_arquivo_chiller_para_dados_cummins(): the moved file keeps its
\* modification time
Mover ==
    /\ pc = "mover"
    /\ IF entrada.exists
         THEN chillerFile' = entrada /\ entrada' = NoFile
         ELSE UNCHANGED <<chillerFile, entrada>>
    /\ pc' = Proximo(pc)
    /\ UNCHANGED <<bkVars, legado, transNorm, tick, amostras, origem, monthly, limiar, fnVars,
                   fatorOk, relogio, hist, est, ledger, execs, ledgerInicio, execAnterior, mudou>>

\* what the call c leaves in the files and in memory
HistoricoConstruido(c) ==
    /\ amostras' = c.amostras
    /\ origem' = c.via
    /\ transNorm' = c.trans
    /\ monthly' = c.mensal
    /\ hist' = IF c.escreve THEN c.hist ELSE hist

\* construir_tabela_historico_de_chiller(potencia_min_kw = 0.0)
ConstruirHistorico ==
    /\ pc = "historico"
    /\ HistoricoConstruido(
          construir_tabela_historico_de_chiller(chillerFile, transNorm,
              calcular_temperatura_media_mensal_inmet(relogio), fatorOk, 0, tick))
    /\ limiar' = 0
    /\ tick' = tick + 1
    /\ pc' = Proximo(pc)
    /\ UNCHANGED <<bkVars, legado, chillerFile, fnVars, entrada, fatorOk, relogio, est, ledger, execs,
                   ledgerInicio, execAnterior, mudou>>

\* gerar_estimativas(), before and after the validator
GerarEstimativas ==
    /\ pc \in {"estimativas1", "estimativas2"}
    /\ est' = IF hist.exists THEN gerar_estimativas(hist, ledger, relogio) ELSE est
    /\ pc' = Proximo(pc)
    /\ UNCHANGED <<bkVars, legado, normVars, fnVars, entrada, fatorOk, relogio, hist, ledger, execs,
                   ledgerInicio, execAnterior, mudou>>

\* atualizar_historico_acuracia()
AtualizarAcuracia ==
    /\ pc = "acuracia"
    /\ ledger' = atualizar_historico_acuracia(hist, est, ledger)
    /\ pc' = Proximo(pc)
    /\ UNCHANGED <<bkVars, legado, normVars, fnVars, entrada, fatorOk, relogio, hist, est, execs,
                   ledgerInicio, execAnterior, mudou>>

\* the script ends
Terminar ==
    /\ pc = "fim"
    /\ pc' = "parado"
    /\ execs' = execs + 1
    /\ execAnterior' = <<hist, est, ledger>>
    /\ mudou' = FALSE
    /\ UNCHANGED <<bkVars, legado, normVars, fnVars, entrada, fatorOk, relogio, hist, est, ledger,
                   ledgerInicio>>

\* the rows (absolute month, minute in the month, kW) of an export
LinhasExport(ntok, triplos) ==
    [i \in DOMAIN triplos |->
        [dt |-> IF triplos[i][1] < 0 THEN NaT
                ELSE triplos[i][1] * MonthSpan + triplos[i][2],
         pe |-> triplos[i][3], pf |-> 3 * triplos[i][3], cop |-> 3, ntok |-> ntok]]

Export(ncols, achatada, ntok, mtime, triplos) ==
    [exists |-> TRUE, ncols |-> ncols, achatada |-> achatada,
     cElet |-> TRUE, cFrig |-> TRUE, cCop |-> TRUE, suspeito |-> FALSE,
     rows |-> LinhasExport(ntok, triplos), mtime |-> mtime]

\* two earlier years, months with and without samples
AnosAnteriores ==
    << <<2, 0, 12>>, <<7, 0, 24>>, <<8, 0, 12>>, <<9, 0, 12>>,
       <<14, 0, 24>>, <<19, 0, 12>>, <<20, 0, 24>>, <<21, 0, 12>> >>

\* the third year: January measured, February measured and always off, March
\* not measured, August (the current month) begun
AnoVigente ==
    << <<24, 0, 12>>, <<24, 5, 12>>, <<25, 0, 0>>, <<31, 0, 12>> >>

\* a table export with the three years
ExportA(mtime) == Export(5, FALSE, 5, mtime, AnosAnteriores \o AnoVigente)

\* a flattened export: rows out of order, one with an unreadable date, and
\* March of the third year measured
ExportB(mtime) ==
    Export(1, TRUE, COLUNAS_CHILLER_COMPLETO, mtime,
           << <<26, 0, 24>>, <<0 - 1, 0, 12>> >> \o AnosAnteriores \o AnoVigente
              \o << <<36, 0, 12>>, <<36, 5, 24>> >>)

\* a table export that stops before the third year
ExportC(mtime) == Export(5, FALSE, 5, mtime, AnosAnteriores \o << <<2, 5, 12>> >>)

Relogios ==
    { [ano |-> BaseYear + 2, mes |-> 8, dia |-> 10],
      [ano |-> BaseYear + 3, mes |-> 2, dia |-> 15] }

Depois(a, b) == MesAbs(a.ano, a.mes) > MesAbs(b.ano, b.mes)

\* a new CHILLERS.xlsx is dropped in BASE_DIR; its modification time is the
\* time it was saved, now or before the transition file was written
NovaExportacao ==
    /\ pc = "parado"
    /\ ~entrada.exists
    /\ execs < MaxExecs
    /\ \E m \in {1, tick} : entrada' \in {ExportB(m), ExportC(m)}
    /\ tick' = tick + 1
    /\ mudou' = TRUE
    /\ UNCHANGED <<bkVars, legado, chillerFile, transNorm, amostras, origem, monthly, limiar, pc, fnVars,
                   fatorOk, relogio, hist, est, ledger, execs, ledgerInicio, execAnterior>>

\* time passes between two executions
AvancarRelogio ==
    /\ pc = "parado"
    /\ execs < MaxExecs
    /\ \E h \in Relogios : Depois(h, relogio) /\ relogio' = h
    /\ mudou' = TRUE
    /\ UNCHANGED <<bkVars, legado, normVars, pc, fnVars, entrada, fatorOk, hist, est, ledger, execs,
                   ledgerInicio, execAnterior>>

\* ledger rows of type Real left on disk by earlier versions or by hand
LinhaLegado(ano, mes, err) ==
    [ano |-> ano, mes |-> mes, tipo |-> "Real",
     consReal |-> 100, consEst |-> 100 + (err \div 100), errCons |-> err,
     horasReal |-> NaN, horasEst |-> NaN, errHoras |-> NaN,
     tempReal |-> 2000, tempEst |-> 2000, errTemp |-> 0,
     pot |-> NaN, fu |-> NaN, cop |-> NaN, co2 |-> NaN]

\* six Real rows with an error of -5 %
LedgerGlobal ==
    [exists |-> TRUE,
     rows |-> [i \in 1..MinGlobal |-> LinhaLegado(BaseYear + 1, i, 0 - 500)]]

\* the same, and three Real rows for September with an error of +10 %
LedgerMensal ==
    [exists |-> TRUE,
     rows |-> LedgerGlobal.rows
                \o [i \in 1..MinMensal |-> LinhaLegado(BaseYear - 2 + i, 9, 1000)]]

InitPipeline(ledgers) ==
    /\ chillerFile \in {NoFile, ExportA(1), ExportC(1)}
    /\ entrada \in {NoFile, ExportA(1)}
    /\ transNorm = NoFile
    /\ tick = 2
    /\ amostras = <<>>
    /\ origem = "nenhuma"
    /\ monthly = <<>>
    /\ limiar = 0
    /\ pc = "parado"
    /\ arg = <<>>
    /\ res = 0
    /\ fatorOk \in BOOLEAN
    /\ relogio = [ano |-> BaseYear + 2, mes |-> 8, dia |-> 10]
    /\ hist = NoHist
    /\ est = NoTable
    /\ ledger \in ledgers
    /\ execs = 0
    /\ ledgerInicio = NoTable
    /\ execAnterior = <<NoHist, NoTable, NoTable>>
    /\ mudou = FALSE
    /\ legado = ledger
    /\ SemBackup

\* a fresh installation: no ledger yet
Init == InitPipeline({NoTable})

\* an installation that already holds a ledger
InitLegado == InitPipeline({NoTable, LedgerGlobal, LedgerMensal})

Next ==
    \/ Iniciar
    \/ Mover
    \/ ConstruirHistorico
    \/ GerarEstimativas
    \/ AtualizarAcuracia
    \/ Terminar
    \/ NovaExportacao
    \/ AvancarRelogio

Spec == Init /\ [][Next]_vars

SpecLegado == InitLegado /\ [][Next]_vars

----------------------------------------------------------------------------
(* Specification SpecNorm: one export, loaded and aggregated *)

Potencias == {10, 20}
Limiares == {0, 10}
Instantes == {NaT, 0, 5, MonthSpan}

LinhaCurta == [dt |-> 0, pe |-> 10, pf |-> 30, cop |-> 3, ntok |-> 5]

LinhasDe(ntok) ==
    {[dt |-> d, pe |-> p, pf |-> 3 * p, cop |-> 3, ntok |-> ntok] :
        d \in Instantes, p \in Potencias}

Layouts ==
    { [ncols |-> 5, achatada |-> FALSE, ntok |-> 5],
      [ncols |-> 1, achatada |-> FALSE, ntok |-> MinTokens],
      [ncols |-> 1, achatada |-> TRUE, ntok |-> COLUNAS_CHILLER_COMPLETO] }

ExportsDe(l) ==
    LET R == IF l.ncols = 1 THEN LinhasDe(l.ntok) \cup {LinhaCurta} ELSE LinhasDe(l.ntok)
    IN { [exists |-> TRUE, ncols |-> l.ncols, achatada |-> l.achatada,
          cElet |-> TRUE, cFrig |-> TRUE, cCop |-> TRUE, suspeito |-> FALSE,
          rows |-> rs, mtime |-> 1] :
         rs \in UNION {[1..n -> R] : n \in 0..MaxRows} }

InitNorm ==
    /\ chillerFile \in UNION {ExportsDe(l) : l \in Layouts}
    /\ transNorm = NoFile
    /\ tick = 2
    /\ amostras = <<>>
    /\ origem = "nenhuma"
    /\ monthly = <<>>
    /\ limiar = 0
    /\ pc = "inicio"
    /\ arg = <<>>
    /\ res = 0
    /\ SemPipeline

\* carregar_amostras_chiller()
Carregar ==
    /\ pc = "inicio"
    /\ \E escreve \in BOOLEAN :
         LET c == carregar_amostras_chiller(chillerFile, transNorm, escreve, tick)
         IN /\ amostras' = c.df
            /\ origem' = c.via
            /\ transNorm' = c.trans
    /\ tick' = tick + 1
    /\ pc' = "carregado"
    /\ UNCHANGED <<chillerFile, monthly, limiar, arg, res, pipeVars, bkVars>>

\* agregar_consumo_e_horas_chiller(potencia_min_kw = p)
Agregar ==
    /\ pc \in {"inicio", "carregado"}
    /\ \E escreve \in BOOLEAN, p \in Limiares :
         LET c == carregar_amostras_chiller(chillerFile, transNorm, escreve, tick)
         IN /\ amostras' = c.df
            /\ origem' = c.via
            /\ transNorm' = c.trans
            /\ monthly' = agregar_consumo_e_horas_chiller(c.df, p)
            /\ limiar' = p
    /\ tick' = tick + 1
    /\ pc' = "agregado"
    /\ UNCHANGED <<chillerFile, arg, res, pipeVars, bkVars>>

NextNorm == Carregar \/ Agregar

SpecNorm == InitNorm /\ [][NextNorm]_vars

----------------------------------------------------------------------------
(* Specification SpecPasso: the sampling-rate estimator on a column of timestamps *)

PassoInstantes == {NaT, 0, 3, 10, 22, 45, 60, 106, 170}

InitPasso ==
    /\ arg \in UNION {[1..n -> PassoInstantes] : n \in 0..MaxDts}
    /\ res = 0
    /\ pc = "passo"
    /\ chillerFile = NoFile
    /\ transNorm = NoFile
    /\ tick = 0
    /\ amostras = <<>>
    /\ origem = "nenhuma"
    /\ monthly = <<>>
    /\ limiar = 0
    /\ SemPipeline

EstimarPasso ==
    /\ pc = "passo"
    /\ res' = estimar_intervalo_de_amostragem_minutos(arg)
    /\ pc' = "passo_ok"
    /\ UNCHANGED <<arg, normVars, pipeVars, bkVars>>

NextPasso == EstimarPasso

SpecPasso == InitPasso /\ [][NextPasso]_vars

----------------------------------------------------------------------------
(* Claims on the schema normalizer *)

PorConversor == origem \in {"tokens", "tabela", "direto"}

\* the rows of the export a converter keeps: parseable timestamp, and enough
\* tokens when the export is one column of tokens
LinhasMantidas ==
    {i \in DOMAIN chillerFile.rows :
        /\ chillerFile.rows[i].dt # NaT
        /\ chillerFile.ncols = 1 => chillerFile.rows[i].ntok >= MinTokens}

\* C5 as stated: the samples returned by the two converters have strictly
\* ascending timestamps, no two samples share a timestamp.
C5_EstritamenteCrescente ==
    PorConversor =>
        \A i, j \in DOMAIN amostras : i < j => amostras[i].dt < amostras[j].dt

\* C5 amended: the samples returned by converter_tokens_para_amostras_chiller
\* and converter_tabela_para_amostras_chiller are in non-decreasing timestamp
\* order and none has a null timestamp, whatever the order of the rows; every
\* row with a parseable timestamp is kept, rows sharing a timestamp included.
C5_Crescente ==
    PorConversor =>
        /\ \A i, j \in DOMAIN amostras : i < j => amostras[i].dt <= amostras[j].dt
        /\ \A i \in DOMAIN amostras : amostras[i].dt # NaT
        /\ Len(amostras) = Cardinality(LinhasMantidas)

\* C5 witness: a table whose rows are out of order and repeat a timestamp,
\* converted to three samples of which two share their timestamp.
C5_Witness ==
    /\ origem = "tabela"
    /\ Len(chillerFile.rows) = 3
    /\ chillerFile.rows[1].dt > chillerFile.rows[2].dt
    /\ chillerFile.rows[2].dt # NaT
    /\ Len(amostras) = 3
    /\ amostras[1].dt = amostras[2].dt

\* C6 as stated: every sample set the loader returns, by whichever branch, is
\* sorted ascending by timestamp and has no null timestamp.
C6_CarregadoOrdenadoSemNulos ==
    pc # "inicio" =>
        /\ \A i, j \in DOMAIN amostras : i < j => amostras[i].dt <= amostras[j].dt
        /\ \A i \in DOMAIN amostras : amostras[i].dt # NaT

----------------------------------------------------------------------------
(* Claims on the sampling-rate estimator *)

\* the positions of arg whose delta to the next timestamp lies in (0, 60]
C7_Validos ==
    {i \in 1..(Len(arg) - 1) :
        /\ arg[i] # NaT /\ arg[i + 1] # NaT
        /\ arg[i + 1] - arg[i] > 0
        /\ arg[i + 1] - arg[i] <= 60}

C7_Delta(i) == arg[i + 1] - arg[i]

\* the k-th smallest of the valid deltas
C7_Ordem(k) ==
    CHOOSE x \in {C7_Delta(i) : i \in C7_Validos} :
        /\ Cardinality({i \in C7_Validos : C7_Delta(i) < x}) < k
        /\ Cardinality({i \in C7_Validos : C7_Delta(i) <= x}) >= k

C7_Mediana2 ==
    LET n == Cardinality(C7_Validos)
    IN IF n % 2 = 1 THEN 2 * C7_Ordem((n + 1) \div 2)
       ELSE C7_Ordem(n \div 2) + C7_Ordem((n \div 2) + 1)

\* C7: the estimated step is 1 when no consecutive delta lies in (0, 60];
\* otherwise it is an element of {1, 5, 10, 15, 30, 60} at minimal distance
\* from the median of the deltas in (0, 60].
C7_PassoMaisProximo ==
    pc = "passo_ok" =>
        IF C7_Validos = {} THEN res = 1
        ELSE /\ res \in {1, 5, 10, 15, 30, 60}
             /\ \A c \in {1, 5, 10, 15, 30, 60} :
                    Abs(2 * res - C7_Mediana2) <= Abs(2 * c - C7_Mediana2)

\* C7 witness: deltas 10, 12 and a gap of 84 minutes; the median of the two
\* valid deltas is 11 and the step 10.
C7_Witness ==
    /\ pc = "passo_ok"
    /\ arg = <<0, 10, 22, 106>>
    /\ res = 10

----------------------------------------------------------------------------
(* Claims on the monthly aggregator *)

RECURSIVE C8_Soma(_, _)
C8_Soma(F(_), I) ==
    IF I = {} THEN 0
    ELSE LET i == CHOOSE x \in I : TRUE IN F(i) + C8_Soma(F, I \ {i})

\* the samples of month (ano, mes) that are on
C8_Ligadas(ano, mes) ==
    {i \in DOMAIN amostras :
        /\ amostras[i].dt # NaT
        /\ AnoDe(amostras[i].dt) = ano
        /\ MesDe(amostras[i].dt) = mes
        /\ amostras[i].pe # NaN
        /\ amostras[i].pe > limiar}

C8_Exemplo ==
    /\ Len(chillerFile.rows) = 2
    /\ chillerFile.rows[1].dt = 0 /\ chillerFile.rows[1].pe = 10
    /\ chillerFile.rows[2].dt = 5 /\ chillerFile.rows[2].pe = 20
    /\ chillerFile.rows[1].ntok = chillerFile.rows[2].ntok
    /\ limiar = 0

\* C8: every row of the aggregate holds the sum of power x step over the
\* month's samples above the threshold and step x their number (energy in
\* kW.min, hours in minutes); samples of 10 kW and 20 kW five minutes apart
\* give a step of 5 minutes, 150 kW.min = 2.5 kWh and 10 min = 0.1667 h.
C8_SomaMensal ==
    pc = "agregado" =>
        /\ \A k \in DOMAIN monthly :
             LET L == C8_Ligadas(monthly[k].ano, monthly[k].mes)
             IN /\ monthly[k].kwmin =
                     C8_Soma(LAMBDA i : amostras[i].pe * amostras[1].step, L)
                /\ monthly[k].hmin = amostras[1].step * Cardinality(L)
        /\ C8_Exemplo =>
             /\ amostras[1].step = 5
             /\ monthly = <<[ano |-> BaseYear, mes |-> 1, kwmin |-> 150, hmin |-> 10]>>

\* C8 witness: the example export aggregated at threshold 0.
C8_Witness ==
    /\ pc = "agregado"
    /\ C8_Exemplo
    /\ monthly # <<>>
    /\ monthly[1].kwmin = 150

----------------------------------------------------------------------------
(* Specification SpecMedia: the robust historical mean of a series, with and *)
(* without one more year                                                     *)

ValoresMedia == {NaN, 1000, 1100, 1400}

\* a value far from every value of ValoresMedia
Distante == 100000

\* the rows of one month, one per year after BaseYear
SerieDe(vals) ==
    [i \in DOMAIN vals |-> [ano |-> BaseYear + i, mes |-> 1, temp |-> vals[i]]]

\* the year the mean is asked for
AnoMedia == BaseYear + MaxAnos + 2

\* rows the mean must ignore: another month, the year asked for, a later year
RuidoMedia ==
    { [ano |-> BaseYear + 1, mes |-> 2, temp |-> 5000],
      [ano |-> AnoMedia, mes |-> 1, temp |-> 5000],
      [ano |-> AnoMedia + 1, mes |-> 1, temp |-> 1000] }

InitMedia ==
    /\ \E n \in 1..MaxAnos :
         \E vals \in [1..n -> ValoresMedia], a \in {BaseYear, BaseYear + n + 1},
            v \in {Distante, 0 - Distante} :
            \E ruido \in RuidoMedia :
               arg = [serie |-> SerieDe(vals),
                      extra |-> [ano |-> a, mes |-> 1, temp |-> v],
                      ruido |-> ruido]
    /\ res = 0
    /\ pc = "media"
    /\ chillerFile = NoFile
    /\ transNorm = NoFile
    /\ tick = 0
    /\ amostras = <<>>
    /\ origem = "nenhuma"
    /\ monthly = <<>>
    /\ limiar = 0
    /\ SemPipeline

\* media_historica_corrigida on the series and on the series with the extra row
CalcularMedia ==
    /\ pc = "media"
    /\ res' = [sem |-> media_historica_corrigida(arg.serie, "temp", 1, AnoMedia),
               com |-> media_historica_corrigida(Append(arg.serie, arg.extra), "temp", 1,
                                                 AnoMedia),
               ruido |-> media_historica_corrigida(<<arg.ruido>> \o arg.serie, "temp", 1,
                                                   AnoMedia)]
    /\ pc' = "media_ok"
    /\ UNCHANGED <<arg, normVars, pipeVars, bkVars>>

NextMedia == CalcularMedia

SpecMedia == InitMedia /\ [][NextMedia]_vars

----------------------------------------------------------------------------
(* Claims on the pipeline *)

Chaves(rows) == {MesAbs(r.ano, r.mes) : r \in Range(rows)}

\* C1: with the clock and the input files unchanged, a second execution of
\* the script leaves the history table, the estimate table and the ledger
\* identical to those the previous execution left, whatever ledger the first
\* execution found.
C1_SegundaExecucaoIdentica ==
    (pc = "fim" /\ execs >= 1 /\ ~mudou) => <<hist, est, ledger>> = execAnterior

\* C1 witness: a second execution ends, nothing changed since the first one,
\* which found a ledger and replaced it.
C1_Witness ==
    /\ pc = "fim" /\ execs >= 1 /\ ~mudou
    /\ legado = LedgerMensal
    /\ ledger # legado
    /\ ledger.rows # <<>> /\ est.rows # <<>> /\ hist.rows # <<>>

\* the column Consumo Corrigido of the estimate table is the one the bias of
\* ledger L gives
C2_CorrigidoPor(L) ==
    \A i \in DOMAIN est.rows :
        est.rows[i].ccorr =
            IF est.rows[i].tipo = "Projetado"
              THEN AplicarVies(est.rows[i].cesp,
                               ViesAjuste(carregar_vies_historico(L), est.rows[i].mes))
              ELSE est.rows[i].cesp

C3_Sucesso == pc = "estimativas2" /\ hist.exists /\ est.exists /\ hist.temCO2

\* C3: after a successful validator run the ledger holds exactly one row for
\* each (year, month) present in both the history table and the estimate
\* table, built from the two rows of that month, in ascending (year, month
\* index) order, and nothing else.
C3_LedgerRecalculado ==
    C3_Sucesso =>
        /\ Chaves(ledger.rows) = Chaves(hist.rows) \cap Chaves(est.rows)
        /\ \A i, j \in DOMAIN ledger.rows :
              i < j => MesAbs(ledger.rows[i].ano, ledger.rows[i].mes)
                         < MesAbs(ledger.rows[j].ano, ledger.rows[j].mes)
        /\ \A i \in DOMAIN ledger.rows :
              \E h \in Range(hist.rows), e \in Range(est.rows) :
                 /\ h.ano = e.ano /\ h.mes = e.mes
                 /\ ledger.rows[i].ano = h.ano /\ ledger.rows[i].mes = h.mes
                 /\ ledger.rows[i].tipo = e.tipo
                 /\ ledger.rows[i].consReal = h.consumo
                 /\ ledger.rows[i].consEst = e.cesp
                 /\ ledger.rows[i].horasReal = h.horas
                 /\ ledger.rows[i].horasEst = e.horasEst
                 /\ ledger.rows[i].tempReal = h.temp
                 /\ ledger.rows[i].tempEst = e.tempEst

\* C3 witness: the validator succeeded on a ledger holding rows of months
\* that the new ledger does not hold.
C3_Witness ==
    /\ C3_Sucesso
    /\ ledger.rows # <<>>
    /\ ledgerInicio.rows # <<>>
    /\ Chaves(ledgerInicio.rows) \cap Chaves(ledger.rows) = {}

\* C4 as stated: a row the ledger held when the execution started is still
\* there after the validator, or replaced by a row of the same (year, month),
\* and no two rows of the ledger have the same (year, month).
C4_LedgerAcumula ==
    pc \in {"estimativas2", "fim"} =>
        /\ Chaves(ledgerInicio.rows) \subseteq Chaves(ledger.rows)
        /\ Cardinality(Chaves(ledger.rows)) = Len(ledger.rows)

\* the aggregate row of absolute month k, if any
C9_Mensal(k) == SelectSeq(monthly, LAMBDA r : MesAbs(r.ano, r.mes) = k)

\* the samples whose timestamp lies in absolute month k
C9_Amostras(k) ==
    {i \in DOMAIN amostras : amostras[i].dt # NaT /\ amostras[i].dt \div MonthSpan = k}

C9_Desligada(i) == amostras[i].pe = NaN \/ amostras[i].pe <= limiar

\* C9: the aggregate has a row for a month iff a sample has its timestamp in
\* it; a month whose samples are all off has consumption 0 and hours 0; the
\* history table has an empty consumption cell exactly for the months without
\* aggregate row; a Real row of the estimate table copies the consumption of a
\* month that has one, 0 included, and takes the historical band otherwise.
C9_AusenteNaoEZero ==
    pc \in {"acuracia", "estimativas2", "fim"} =>
        /\ \A k \in 0..(5 * Len(MESES_ORDEM)) :
              /\ (C9_Mensal(k) # <<>>) <=> (C9_Amostras(k) # {})
              /\ Len(C9_Mensal(k)) <= 1
              /\ (C9_Amostras(k) # {} /\ \A i \in C9_Amostras(k) : C9_Desligada(i)) =>
                    (C9_Mensal(k)[1].kwmin = 0 /\ C9_Mensal(k)[1].hmin = 0)
        /\ \A h \in Range(hist.rows) :
              LET m == C9_Mensal(MesAbs(h.ano, h.mes))
              IN /\ (h.consumo = NaN) <=> (m = <<>>)
                 /\ (m # <<>> /\ m[1].kwmin = 0) => h.consumo = 0
        /\ \A e \in Range(est.rows) :
              e.tipo = "Real" =>
                 IF C9_Mensal(MesAbs(e.ano, e.mes)) # <<>>
                   THEN \E h \in Range(hist.rows) :
                           /\ h.ano = e.ano /\ h.mes = e.mes
                           /\ e.cmin = h.consumo /\ e.cesp = h.consumo
                           /\ e.cmax = h.consumo
                   ELSE [min |-> e.cmin, esperado |-> e.cesp, max |-> e.cmax]
                          = estimar_consumo_mensal(hist.rows, e.mes, e.ano, SemParcial)

\* C9 witness: a past month of the current year whose samples are all off,
\* copied as 0, and a past month without samples, estimated from the band.
C9_Witness ==
    /\ pc = "fim"
    /\ \E e \in Range(est.rows) :
          /\ e.tipo = "Real" /\ e.cesp = 0
          /\ C9_Mensal(MesAbs(e.ano, e.mes)) # <<>>
    /\ \E e \in Range(est.rows) :
          /\ e.tipo = "Real" /\ e.cesp # NaN /\ e.cesp > 0
          /\ C9_Mensal(MesAbs(e.ano, e.mes)) = <<>>
          /\ \E h \in Range(hist.rows) :
                h.ano = e.ano /\ h.mes = e.mes /\ h.consumo = NaN

----------------------------------------------------------------------------
(* Claims on the robust historical estimator *)

\* equality of two results of media_historica_corrigida
C10_Igual(a, b) ==
    /\ a.nulo = b.nulo
    /\ ~a.nulo => a.num * b.den = b.num * a.den

\* the rows of df inside the fence computed over df
C10_Retidos(df) ==
    IF NaoNulos(df, "temp") = <<>> THEN <<>>
    ELSE DentroDosLimites(NaoNulos(df, "temp"), "temp", Limites8(df, "temp"))

\* the extra value lies outside the fence of the series, by more than half
\* of its magnitude
C10_ForaDaCerca ==
    /\ NaoNulos(arg.serie, "temp") # <<>>
    /\ \/ 8 * arg.extra.temp < Limites8(arg.serie, "temp").inf - 4 * Distante
       \/ 8 * arg.extra.temp > Limites8(arg.serie, "temp").sup + 4 * Distante

\* C10 as stated: an extra year's value far outside the fence of the series
\* does not change the robust historical mean.
C10_DistanteNaoMuda ==
    (pc = "media_ok" /\ C10_ForaDaCerca) => C10_Igual(res.sem, res.com)

\* C10 amended: the fence is recomputed over the series with the extra value;
\* when that fence retains exactly the rows the fence of the series alone
\* retained (so it excludes the extra value), the robust historical mean is
\* unchanged.
C10_MesmosRetidosNaoMuda ==
    (pc = "media_ok" /\ C10_ForaDaCerca
       /\ C10_Retidos(Append(arg.serie, arg.extra)) = C10_Retidos(arg.serie)) =>
        C10_Igual(res.sem, res.com)

\* C10 witness: four years 1000, 1100, 1400, 1400 and an earlier year far
\* above them, which the recomputed fence excludes while keeping the four.
C10_Witness ==
    /\ pc = "media_ok"
    /\ Len(arg.serie) = 4
    /\ arg.serie[1].temp = 1000 /\ arg.serie[2].temp = 1100
    /\ arg.serie[3].temp = 1400 /\ arg.serie[4].temp = 1400
    /\ arg.extra.temp = Distante /\ arg.extra.ano = BaseYear
    /\ C10_Retidos(Append(arg.serie, arg.extra)) = C10_Retidos(arg.serie)
    /\ Len(C10_Retidos(arg.serie)) = 4
    /\ ~res.sem.nulo

\* the years of the rows the fence of the series retains
C11_AnosRetidos == {r.ano : r \in Range(C10_Retidos(arg.serie))}

\* the value of the series in year a
C11_Valor(a) == (CHOOSE r \in Range(arg.serie) : r.ano = a).temp

\* max(1, year - minimum retained year + 1)
C11_Peso(a) ==
    LET d == a - (CHOOSE m \in C11_AnosRetidos : \A b \in C11_AnosRetidos : m <= b) + 1
    IN IF d >= 1 THEN d ELSE 1

\* C11: the robust historical mean ignores the rows of other months and of
\* years not strictly before the year asked for; it is null when the month
\* has no row or the fence retains none, otherwise the mean of the retained
\* values weighted by max(1, year - minimum retained year + 1).
C11_MediaPonderadaDosRetidos ==
    pc = "media_ok" =>
        /\ res.ruido = res.sem
        /\ res.sem.nulo <=> (C11_AnosRetidos = {})
        /\ ~res.sem.nulo =>
              res.sem.num * C8_Soma(C11_Peso, C11_AnosRetidos)
                 = res.sem.den
                     * C8_Soma(LAMBDA a : C11_Valor(a) * C11_Peso(a), C11_AnosRetidos)

\* C11 witness: three retained years with different values, next to a row
\* of the year asked for.
C11_Witness ==
    /\ pc = "media_ok"
    /\ arg.ruido.ano = AnoMedia
    /\ Len(arg.serie) = 3
    /\ arg.serie[1].temp = 1000 /\ arg.serie[2].temp = 1100 /\ arg.serie[3].temp = 1400
    /\ Cardinality(C11_AnosRetidos) = 3
    /\ res.sem = [nulo |-> FALSE, num |-> 1000 + 2 * 1100 + 3 * 1400, den |-> 6]

----------------------------------------------------------------------------
(* Specification SpecBanda: the band of a month from its history, with and  *)
(* without partial data                                                      *)

ValoresBanda == {NaN, 0, 100, 300}

\* consumo_parcial, dias_medidos, dias_do_mes: none, 50 kWh in 10 days of 31,
\* nothing consumed so far, and a current month whose cell is empty
Parciais ==
    { SemParcial,
      [tem |-> TRUE, consumo |-> 5000, dias |-> 10, diasMes |-> 31],
      [tem |-> TRUE, consumo |-> 0, dias |-> 10, diasMes |-> 31],
      [tem |-> TRUE, consumo |-> NaN, dias |-> 10, diasMes |-> 31] }

\* the history rows of month 1: one per year after BaseYear, and possibly the
\* row of the year asked for
HistoricoDe(vals, doAno) ==
    [i \in DOMAIN vals |-> [ano |-> BaseYear + i, mes |-> 1, consumo |-> vals[i]]]
      \o (IF doAno THEN <<[ano |-> AnoMedia, mes |-> 1, consumo |-> 99900]>> ELSE <<>>)

InitBanda ==
    /\ \E n \in 0..MaxAnos :
         \E vals \in [1..n -> ValoresBanda], doAno \in BOOLEAN, p \in Parciais :
            arg = [df |-> HistoricoDe(vals, doAno), p |-> p]
    /\ res = 0
    /\ pc = "banda"
    /\ chillerFile = NoFile
    /\ transNorm = NoFile
    /\ tick = 0
    /\ amostras = <<>>
    /\ origem = "nenhuma"
    /\ monthly = <<>>
    /\ limiar = 0
    /\ SemPipeline

\* estimar_consumo_mensal(df, mes, ano, consumo_parcial, dias_medidos, dias_do_mes)
CalcularBanda ==
    /\ pc = "banda"
    /\ res' = estimar_consumo_mensal(arg.df, 1, AnoMedia, arg.p)
    /\ pc' = "banda_ok"
    /\ UNCHANGED <<arg, normVars, pipeVars, bkVars>>

NextBanda == CalcularBanda

SpecBanda == InitBanda /\ [][NextBanda]_vars

----------------------------------------------------------------------------
(* Claims on the monthly band *)

\* the rows of the month in the years before the year asked for
C12_Antes == {i \in DOMAIN arg.df : arg.df[i].mes = 1 /\ arg.df[i].ano < AnoMedia}

\* those with a consumption
C12_ComConsumo == {i \in C12_Antes : arg.df[i].consumo # NaN}

\* consumedSoFar / daysMeasured x daysInMonth, in hundredths
C12_Proporcional == RoundDiv(arg.p.consumo * arg.p.diasMes, arg.p.dias)

\* the mean consumption of the month over the years before, null without one
C12_Media ==
    IF C12_ComConsumo = {} THEN NaN
    ELSE RoundDiv(C8_Soma(LAMBDA i : arg.df[i].consumo, C12_ComConsumo),
                  Cardinality(C12_ComConsumo))

\* C12 as stated: with partial data the expected consumption is consumed /
\* days measured x days in month whatever the history (50, 10, 31 gives
\* 155.00), 0 consumed included; without, it is the mean of the month over
\* the years before.
C12_ParcialSempre ==
    pc = "banda_ok" =>
        /\ (arg.p.tem /\ arg.p.consumo # NaN) =>
              /\ res.esperado = C12_Proporcional
              /\ arg.p.consumo = 5000 => res.esperado = 15500
        /\ ~arg.p.tem => res.esperado = C12_Media

\* C12 amended: the band is all null when the month has no history row
\* before the year, partial data or not; when it has one, partial data gives
\* expected = consumed / days measured x days in month (50, 10, 31 gives
\* 155.00; 0 consumed gives 0), and no partial data gives the mean of the
\* month's consumption over the years before.
C12_ParcialComHistorico ==
    pc = "banda_ok" =>
        /\ C12_Antes = {} => res = [min |-> NaN, esperado |-> NaN, max |-> NaN]
        /\ (C12_Antes # {} /\ arg.p.tem /\ arg.p.consumo # NaN) =>
              /\ res.esperado = C12_Proporcional
              /\ arg.p.consumo = 5000 => res.esperado = 15500
        /\ (C12_Antes # {} /\ ~arg.p.tem) => res.esperado = C12_Media

\* C12 witness: 0 consumed so far in a month whose history has a mean of
\* 2.00: the expected consumption is 0.
C12_Witness ==
    /\ pc = "banda_ok"
    /\ arg.p.tem /\ arg.p.consumo = 0
    /\ Cardinality(C12_ComConsumo) = 2
    /\ C12_Media = 200
    /\ res.esperado = 0

C13_TodaNula(b) == b.min = NaN /\ b.esperado = NaN /\ b.max = NaN

C13_TodaPreenchida(b) ==
    /\ b.min # NaN /\ b.esperado # NaN /\ b.max # NaN
    /\ 0 <= b.min /\ b.min <= b.esperado /\ b.esperado <= b.max

\* C13: the band is either all null, which it is whenever the month has no
\* consumption value before the year, or all non-null with
\* 0 <= min <= esperado <= max; never null in only some of its fields.
C13_BandaInteiraOuNula ==
    pc = "banda_ok" =>
        /\ C13_TodaNula(res) \/ C13_TodaPreenchida(res)
        /\ C12_ComConsumo = {} => C13_TodaNula(res)

----------------------------------------------------------------------------
(* Claims on the estimate table *)

\* the estimate table was written in this run from the history table
C14_Gerada == pc \in {"acuracia", "fim"} /\ hist.exists

\* C14: a generation yields one row per month of MESES_ORDEM for the current
\* year, then one per month for the following year; a current-year row is
\* Real before the current month, Corrigido in it, Projetado after it, and
\* every following-year row is Projetado, whatever the history holds.
C14_UmaLinhaPorMes ==
    C14_Gerada =>
        /\ Len(est.rows) = 2 * Len(MESES_ORDEM)
        /\ \A i \in DOMAIN MESES_ORDEM :
              /\ est.rows[i].ano = relogio.ano
              /\ est.rows[i].mes = i
              /\ i < relogio.mes => est.rows[i].tipo = "Real"
              /\ i = relogio.mes => est.rows[i].tipo = "Corrigido"
              /\ i > relogio.mes => est.rows[i].tipo = "Projetado"
              /\ est.rows[Len(MESES_ORDEM) + i].ano = relogio.ano + 1
              /\ est.rows[Len(MESES_ORDEM) + i].mes = i
              /\ est.rows[Len(MESES_ORDEM) + i].tipo = "Projetado"

\* C14 witness: a table generated in August, with a measured January, from
\* a history that has rows.
C14_Witness ==
    /\ C14_Gerada
    /\ pc = "fim"
    /\ relogio.mes = 8
    /\ hist.rows # <<>>
    /\ est.rows[1].tipo = "Real" /\ est.rows[1].cesp # NaN
    /\ est.rows[7].tipo = "Real"
    /\ est.rows[8].tipo = "Corrigido"
    /\ est.rows[9].tipo = "Projetado"

\* the history rows of month i of the current year, and of earlier years
C15_DoMes(i) == SelectSeq(hist.rows, LAMBDA r : r.ano = relogio.ano /\ r.mes = i)
C15_AnosAntes == SelectSeq(hist.rows, LAMBDA r : r.ano < relogio.ano)

C15_TemReal(i) == C15_DoMes(i) # <<>> /\ C15_DoMes(i)[1].consumo # NaN

C15_BandaDe(r) == [min |-> r.cmin, esperado |-> r.cesp, max |-> r.cmax]

\* C15: a Real row whose (year, month) has a consumption in the history has
\* min = esperado = max = corrigido = that consumption; a Real row without
\* one has the band of the month over the years before the current year,
\* with no partial data.
C15_LinhaReal ==
    C14_Gerada =>
        \A i \in DOMAIN MESES_ORDEM :
            est.rows[i].tipo = "Real" =>
                IF C15_TemReal(i)
                  THEN /\ est.rows[i].cmin = C15_DoMes(i)[1].consumo
                       /\ est.rows[i].cesp = C15_DoMes(i)[1].consumo
                       /\ est.rows[i].cmax = C15_DoMes(i)[1].consumo
                       /\ est.rows[i].ccorr = C15_DoMes(i)[1].consumo
                  ELSE C15_BandaDe(est.rows[i])
                         = estimar_consumo_mensal(C15_AnosAntes, i, relogio.ano, SemParcial)

\* C15 witness: January was measured, and its row holds what it consumed and
\* not what the earlier years give; March was not, and its row holds the
\* mean of the earlier years.
C15_Witness ==
    /\ C14_Gerada
    /\ relogio.mes = 8
    /\ C15_TemReal(1) /\ est.rows[1].cesp = C15_DoMes(1)[1].consumo
    /\ ~C15_TemReal(3) /\ est.rows[3].tipo = "Real" /\ est.rows[3].cesp # NaN
    /\ est.rows[1].cesp # estimar_consumo_mensal(C15_AnosAntes, 1, relogio.ano, SemParcial).esperado

\* the row of month i of the following year
C16_Seguinte(i) == est.rows[Len(MESES_ORDEM) + i]

\* C16: every following-year row (band, temperature, hours) is what the
\* history rows of the years strictly before the current year give: the
\* current-year rows, the partially measured current month included, have no
\* part in it.
C16_SoAnosAnteriores ==
    C14_Gerada =>
        \A i \in DOMAIN MESES_ORDEM :
            /\ C15_BandaDe(C16_Seguinte(i))
                 = estimar_consumo_mensal(C15_AnosAntes, i, relogio.ano + 1, SemParcial)
            /\ C16_Seguinte(i).tempEst
                 = Arred(media_historica_corrigida(C15_AnosAntes, "temp", i, relogio.ano))
            /\ C16_Seguinte(i).horasEst
                 = Arred(media_historica_corrigida(C15_AnosAntes, "horas", i, relogio.ano))

----------------------------------------------------------------------------
(* Specification SpecVies: the bias read from a ledger and its application  *)
(* to one estimate row                                                       *)

\* how many Real rows the ledger holds for months 1 and 2, and for month 3
Contagens == {0, 2, 3}
ContagensOutro == {0, 3}

\* n ledger rows of a month, of one type and one consumption error
LinhasVies(n, mes, tipo, err) ==
    [i \in 1..n |-> [LinhaLegado(BaseYear - 2 + i, mes, 0) EXCEPT !.tipo = tipo, !.errCons = err]]

\* a ledger: Real rows of month 1 (error -5 % or null), of month 2 (+10 %)
\* and of month 3 (-5 %), and rows of month 1 that are not Real (+99 %)
LedgerVies(n1, e1, n2, n3, nProj) ==
    [exists |-> TRUE,
     rows |-> LinhasVies(n1, 1, "Real", e1) \o LinhasVies(nProj, 1, "Projetado", 9900)
                \o LinhasVies(n2, 2, "Real", 1000) \o LinhasVies(n3, 3, "Real", 0 - 500)]

EsperadosVies == {NaN, 20000, 333}

InitVies ==
    /\ \E n1 \in Contagens, e1 \in {0 - 500, NaN}, n2 \in Contagens,
          n3 \in ContagensOutro, nProj \in ContagensOutro :
         \E e \in EsperadosVies, t \in {"Real", "Corrigido", "Projetado"}, m \in {1, 2, 4} :
            arg = [ledger |-> LedgerVies(n1, e1, n2, n3, nProj),
                   esperado |-> e, tipo |-> t, mes |-> m]
    /\ res = 0
    /\ pc = "vies"
    /\ chillerFile = NoFile
    /\ transNorm = NoFile
    /\ tick = 0
    /\ amostras = <<>>
    /\ origem = "nenhuma"
    /\ monthly = <<>>
    /\ limiar = 0
    /\ SemPipeline

\* the row of month a.mes, of type a.tipo, whose band is a.esperado
LinhaComVies(a, vies) ==
    [vies |-> vies,
     linha |-> LinhaEstimativa(BaseYear + 2, a.mes, a.tipo,
                               [min |-> a.esperado, esperado |-> a.esperado, max |-> a.esperado],
                               vies, Nulo, Nulo, Nulo, Nulo)]

\* carregar_vies_historico() and the correction of one row
CarregarVies ==
    /\ pc = "vies"
    /\ res' = LinhaComVies(arg, carregar_vies_historico(arg.ledger))
    /\ pc' = "vies_ok"
    /\ UNCHANGED <<arg, normVars, pipeVars, bkVars>>

NextVies == CarregarVies

SpecVies == InitVies /\ [][NextVies]_vars

----------------------------------------------------------------------------
(* Claims on the bias *)

\* the ledger rows of type Real, and those of month m
C17_Reais == {i \in DOMAIN arg.ledger.rows : arg.ledger.rows[i].tipo = "Real"}
C17_DoMes(m) == {i \in C17_Reais : arg.ledger.rows[i].mes = m}

\* v is the mean of the consumption errors of the rows I (null errors are
\* skipped; the mean of none is NaN)
C17_EMedia(v, I) ==
    /\ v.tem
    /\ v.nan <=> \A i \in I : arg.ledger.rows[i].errCons = NaN
    /\ ~v.nan => v.num * Cardinality({i \in I : arg.ledger.rows[i].errCons # NaN})
                   = v.den * C8_Soma(LAMBDA i : arg.ledger.rows[i].errCons,
                                     {i \in I : arg.ledger.rows[i].errCons # NaN})

\* C17: only Real rows count; the global bias is the mean of their errors if
\* and only if there are at least 6 of them, and a month has a bias, the
\* mean of its errors, if and only if it has at least 3 of them, whatever
\* the total.
C17_LimiaresIndependentes ==
    pc = "vies_ok" =>
        /\ res.vies.global.tem <=> Cardinality(C17_Reais) >= 6
        /\ res.vies.global.tem => C17_EMedia(res.vies.global, C17_Reais)
        /\ \A m \in DOMAIN MESES_ORDEM :
              /\ res.vies.mensal[m].tem <=> Cardinality(C17_DoMes(m)) >= 3
              /\ res.vies.mensal[m].tem => C17_EMedia(res.vies.mensal[m], C17_DoMes(m))

\* the row is of type Projetado
C18_Projetada == pc = "vies_ok" /\ arg.tipo = "Projetado"

\* c is e x (1 + v / 100) to the nearest hundredth, null when e or v is
C18_CorrigidoPor(c, e, v) ==
    IF e = NaN \/ v.nan THEN c = NaN
    ELSE 2 * Abs(c * 10000 * v.den - e * (10000 * v.den + v.num)) <= 10000 * v.den

\* C18: a Projetado row is corrected by the bias of its month when the
\* loader returned one, else by the global bias, else not at all
\* (corrigido = esperado); a month with 2 Real rows in the ledger has no
\* bias of its own and takes the global one.
C18_MensalSenaoGlobal ==
    C18_Projetada =>
        /\ res.linha.cesp = arg.esperado
        /\ IF res.vies.mensal[arg.mes].tem
             THEN C18_CorrigidoPor(res.linha.ccorr, arg.esperado, res.vies.mensal[arg.mes])
           ELSE IF res.vies.global.tem
             THEN C18_CorrigidoPor(res.linha.ccorr, arg.esperado, res.vies.global)
           ELSE res.linha.ccorr = arg.esperado
        /\ Cardinality(C17_DoMes(arg.mes)) = 2 => ~res.vies.mensal[arg.mes].tem

\* C18 witness: month 1 has 2 Real rows, month 2 has 3 and a bias of its
\* own; the row of month 1 is corrected by the global bias of +0.625 %.
C18_Witness ==
    /\ C18_Projetada
    /\ arg.mes = 1 /\ Cardinality(C17_DoMes(1)) = 2
    /\ res.vies.mensal[2].tem
    /\ res.vies.global.tem /\ ~res.vies.global.nan
    /\ res.vies.global.num * 8 = 500 * res.vies.global.den
    /\ arg.esperado = 20000 /\ res.linha.ccorr = 20125

\* C19: a row of type Real or Corrigido has corrigido = esperado whatever
\* the ledger holds.
C19_SoProjetadoCorrigido ==
    (pc = "vies_ok" /\ arg.tipo \in {"Real", "Corrigido"}) =>
        /\ res.linha.cesp = arg.esperado
        /\ res.linha.ccorr = res.linha.cesp

\* C19 witness: a Real row of month 2, for which the ledger gives a bias of
\* +10 %, keeps its 200.00.
C19_Witness ==
    /\ pc = "vies_ok" /\ arg.tipo = "Real" /\ arg.mes = 2
    /\ res.vies.mensal[2].tem /\ ~res.vies.mensal[2].nan
    /\ res.vies.mensal[2].num = 1000 * res.vies.mensal[2].den
    /\ arg.esperado = 20000 /\ res.linha.ccorr = 20000

\* the bias that applies to the row, if any
C20_Vies == IF res.vies.mensal[arg.mes].tem THEN res.vies.mensal[arg.mes] ELSE res.vies.global

\* C20: a Projetado row with a bias b and an expected consumption e has
\* corrigido = e x (1 + b / 100) rounded to 2 decimals; e = 200 and b = -5
\* give exactly 190.00.
C20_Arredondado ==
    (C18_Projetada /\ arg.esperado # NaN /\ C20_Vies.tem /\ ~C20_Vies.nan) =>
        /\ res.linha.ccorr # NaN
        /\ 2 * Abs(res.linha.ccorr * 10000 * C20_Vies.den
                     - arg.esperado * (10000 * C20_Vies.den + C20_Vies.num))
              <= 10000 * C20_Vies.den
        /\ (arg.esperado = 20000 /\ C20_Vies.num = (0 - 500) * C20_Vies.den) =>
              res.linha.ccorr = 19000
        /\ (arg.esperado = 333 /\ C20_Vies.num = (0 - 500) * C20_Vies.den) =>
              res.linha.ccorr = 316

\* C20 witness: 200.00 corrected by -5 % is 190.00.
C20_Witness ==
    /\ C18_Projetada
    /\ arg.esperado = 20000
    /\ C20_Vies.tem /\ ~C20_Vies.nan /\ C20_Vies.num = (0 - 500) * C20_Vies.den
    /\ res.linha.ccorr = 19000

----------------------------------------------------------------------------
(* Claims on the accuracy validator *)

\* the ledger rows of the absolute month k
C21_LinhasDe(k) ==
    {i \in DOMAIN ledger.rows : MesAbs(ledger.rows[i].ano, ledger.rows[i].mes) = k}

\* C21: the ledger the validator writes holds a (year, month) only if the
\* history table and the estimate table both hold it, and holds every such
\* (year, month) exactly once.
C21_JuncaoInterna ==
    C3_Sucesso =>
        /\ \A i \in DOMAIN ledger.rows :
              /\ MesAbs(ledger.rows[i].ano, ledger.rows[i].mes) \in Chaves(hist.rows)
              /\ MesAbs(ledger.rows[i].ano, ledger.rows[i].mes) \in Chaves(est.rows)
        /\ \A k \in Chaves(hist.rows) \cap Chaves(est.rows) :
              Cardinality(C21_LinhasDe(k)) = 1

\* C21 witness: the history table holds months of earlier years that the
\* estimates do not, the estimates hold months the history table does not,
\* and some months are in both.
C21_Witness ==
    /\ C3_Sucesso
    /\ ledger.rows # <<>>
    /\ Chaves(hist.rows) \ Chaves(est.rows) # {}
    /\ Chaves(est.rows) \ Chaves(hist.rows) # {}
    /\ \E k \in Chaves(hist.rows) \ Chaves(est.rows) :
          \E j \in Chaves(est.rows) : j % Len(MESES_ORDEM) = k % Len(MESES_ORDEM)

----------------------------------------------------------------------------
(* Specification SpecErro: the validator on one month of the history table  *)
(* and its estimate                                                          *)

ReaisErro == {NaN, 0, 200}
HorasErro == {NaN, 0, 800}
TempsErro == {0, 2000, 0 - 500}
PotsErro == {NaN, 0, 1200}

\* a history table of one row and an estimate table with the row of the same
\* month and the row of another
InitErro ==
    /\ \E c \in ReaisErro, h \in HorasErro, t \in TempsErro, p \in PotsErro :
         \E ce \in {NaN, 0, 190}, he \in {NaN, 700}, te \in {NaN, 2100} :
            arg = [historico |->
                      [exists |-> TRUE, temCO2 |-> TRUE,
                       rows |-> <<[ano |-> BaseYear, mes |-> 1, consumo |-> c, horas |-> h,
                                   pot |-> p, cop |-> NaN, temp |-> t, co2 |-> NaN]>>],
                   estimativas |->
                      [exists |-> TRUE,
                       rows |-> <<[ano |-> BaseYear, mes |-> 1, tipo |-> "Real",
                                   cesp |-> ce, horasEst |-> he, tempEst |-> te],
                                  [ano |-> BaseYear, mes |-> 2, tipo |-> "Projetado",
                                   cesp |-> ce, horasEst |-> he, tempEst |-> te]>>]]
    /\ res = 0
    /\ pc = "erro"
    /\ chillerFile = NoFile
    /\ transNorm = NoFile
    /\ tick = 0
    /\ amostras = <<>>
    /\ origem = "nenhuma"
    /\ monthly = <<>>
    /\ limiar = 0
    /\ SemPipeline

\* atualizar_historico_acuracia() on a folder without ledger
ValidarMes ==
    /\ pc = "erro"
    /\ res' = atualizar_historico_acuracia(arg.historico, arg.estimativas, NoTable)
    /\ pc' = "erro_ok"
    /\ UNCHANGED <<arg, normVars, pipeVars, bkVars>>

NextErro == ValidarMes

SpecErro == InitErro /\ [][NextErro]_vars

\* err is (estimado - real) / real x 100 to the nearest hundredth of a
\* percent when real is not 0, and null when real is 0 or a value is missing
C22_Erro(err, estimado, real) ==
    IF real = 0 \/ real = NaN \/ estimado = NaN THEN err = NaN
    ELSE /\ err # NaN
         /\ 2 * Abs(err * real - (estimado - real) * 10000) <= Abs(real)

\* C22: the validator writes the row of the month whatever its values; each
\* percentage error is (estimated - real) / real x 100 when real is not 0
\* and null when real is 0, and the utilization factor is null when average
\* power x hours is 0.
C22_SemDivisaoPorZero ==
    pc = "erro_ok" =>
        /\ res.exists /\ Len(res.rows) = 1
        /\ C22_Erro(res.rows[1].errCons, res.rows[1].consEst, res.rows[1].consReal)
        /\ C22_Erro(res.rows[1].errHoras, res.rows[1].horasEst, res.rows[1].horasReal)
        /\ C22_Erro(res.rows[1].errTemp, res.rows[1].tempEst, res.rows[1].tempReal)
        /\ res.rows[1].consReal = arg.historico.rows[1].consumo
        /\ res.rows[1].consEst = arg.estimativas.rows[1].cesp
        /\ res.rows[1].horasReal = arg.historico.rows[1].horas
        /\ res.rows[1].tempReal = arg.historico.rows[1].temp
        /\ (res.rows[1].pot # NaN /\ res.rows[1].horasReal # NaN
              /\ res.rows[1].pot * res.rows[1].horasReal = 0) => res.rows[1].fu = NaN

\* C22 witness: a month that consumed 0 in 0 hours at 0 degrees, with
\* estimates for the three: the row is written with the three errors and the
\* utilization factor null.
C22_Witness ==
    /\ pc = "erro_ok"
    /\ Len(res.rows) = 1
    /\ res.rows[1].consReal = 0 /\ res.rows[1].consEst = 190 /\ res.rows[1].errCons = NaN
    /\ res.rows[1].horasReal = 0 /\ res.rows[1].horasEst = 700 /\ res.rows[1].errHoras = NaN
    /\ res.rows[1].tempReal = 0 /\ res.rows[1].tempEst = 2100 /\ res.rows[1].errTemp = NaN
    /\ res.rows[1].pot = 1200 /\ res.rows[1].fu = NaN

----------------------------------------------------------------------------
(* Specification SpecLayout: the layout of an export and the columns its    *)
(* header resolves                                                           *)

\* the condition of detectar_planilha_achatada on the first header c once
\* normalized: it names data, hora and pot, or it is longer than 60
CabecalhoAchatado(c) == (c.data /\ c.hora /\ c.pot) \/ c.len > 60

Cabecalhos == [data : BOOLEAN, hora : BOOLEAN, pot : BOOLEAN, len : {20, 60, 61}]

\* a row of the export with ntok tokens
LinhaLayout(dt, ntok) == [dt |-> dt, pe |-> 10, pf |-> 30, cop |-> 3, ntok |-> ntok]

\* no row, two rows out of order, a row without a readable date
LinhasLayout(ntok) ==
    { <<>>,
      <<LinhaLayout(5, ntok), LinhaLayout(0, ntok)>>,
      <<LinhaLayout(NaT, ntok), LinhaLayout(0, ntok)>> }

InitLayout ==
    /\ \E nc \in {1, 2, 3, 6}, c \in Cabecalhos, ntok \in {3, MinTokens, COLUNAS_CHILLER_COMPLETO} :
         \E ce \in BOOLEAN, cf \in BOOLEAN, cc \in BOOLEAN, sus \in BOOLEAN,
            rs \in LinhasLayout(ntok) :
            arg = [exists |-> TRUE, ncols |-> nc, cabecalho |-> c,
                   achatada |-> CabecalhoAchatado(c),
                   cElet |-> ce, cFrig |-> cf, cCop |-> cc, suspeito |-> sus,
                   rows |-> rs, mtime |-> 1]
    /\ res = 0
    /\ pc = "layout"
    /\ chillerFile = NoFile
    /\ transNorm = NoFile
    /\ tick = 0
    /\ amostras = <<>>
    /\ origem = "nenhuma"
    /\ monthly = <<>>
    /\ limiar = 0
    /\ SemPipeline

\* the normalization of criar_arquivo_transicao_chiller, and
\* converter_tabela_para_amostras_chiller on the same export
NormalizarExport ==
    /\ pc = "layout"
    /\ res' = [n |-> Normalizar(arg), tab |-> converter_tabela_para_amostras_chiller(arg)]
    /\ pc' = "layout_ok"
    /\ UNCHANGED <<arg, normVars, pipeVars, bkVars>>

NextLayout == NormalizarExport

SpecLayout == InitLayout /\ [][NextLayout]_vars

----------------------------------------------------------------------------
(* Claims on the layout *)

\* C23: an export takes the flattened path if and only if it has at most 2
\* columns and its header names data, hora and pot together or is longer
\* than 60 characters; every other export, a one-column export with neither
\* included, takes the tabular path.
C23_AchatadaSeESoSe ==
    pc = "layout_ok" =>
        IF arg.ncols <= 2
             /\ ((arg.cabecalho.data /\ arg.cabecalho.hora /\ arg.cabecalho.pot)
                   \/ arg.cabecalho.len > 60)
          THEN res.n.via \in {"separado", "tokens"}
        ELSE res.n.via = "tabela"

\* the rows of the export that have a date
C24_ComData == SelectSeq(arg.rows, LAMBDA r : r.dt # NaT)

\* C24: on the tabular path an export whose header resolves no electric
\* power column gives no sample; one whose header resolves it gives a sample
\* for every dated row, with cooling power and COP null when their column
\* does not resolve.
C24_SemEletricaSemAmostras ==
    pc = "layout_ok" =>
        /\ ~arg.cElet => res.tab = <<>>
        /\ arg.cElet =>
              /\ Len(res.tab) = Len(C24_ComData)
              /\ \A i \in DOMAIN res.tab :
                    /\ res.tab[i].pe = 10
                    /\ ~arg.cFrig => res.tab[i].pf = NaN
                    /\ ~arg.cCop => res.tab[i].cop = NaN

----------------------------------------------------------------------------
(* Backups of the outputs (utils.py).  A backup is [ts, versao, integro]:   *)
(* the file <stem>_backup_<ts><suffix> and the content it holds; ts is      *)
(* datetime.now() formatted to the second.                                   *)

keep == 5

MaxSegundos == 5
MaxEscritas == 7

\* shutil.copy2(arquivo, destino): a backup taken in the same second has the
\* same name and is overwritten
Copiar(backups, ts, arquivo) ==
    {b \in backups : b.ts # ts}
      \cup {[ts |-> ts, versao |-> arquivo.versao, integro |-> arquivo.integro]}

\* the k backups with the most recent timestamps
limitar_backups(backups, k) ==
    {b \in backups : Cardinality({c \in backups : c.ts > b.ts}) < k}

\* backup_saida(arquivo): the folder after the call.  A copy that raises
\* (copia = FALSE) is logged and leaves the folder as it was.
backup_saida(arquivo, backups, ts, copia) ==
    IF ~arquivo.exists \/ ~copia THEN backups
    ELSE limitar_backups(Copiar(backups, ts, arquivo), keep)

\* the output file after the stage writes version v: written, refused when
\* the file cannot be opened, or left truncated when the write breaks off
Escrever(arquivo, v, escrita) ==
    IF escrita = "ok" THEN [exists |-> TRUE, versao |-> v, integro |-> TRUE]
    ELSE IF escrita = "recusada" THEN arquivo
    ELSE [exists |-> TRUE, versao |-> v, integro |-> FALSE]

InitBackup ==
    /\ SemBackup
    /\ PipelineParado
    /\ pc = "backup"
    /\ arg = <<>>
    /\ res = 0
    /\ chillerFile = NoFile
    /\ transNorm = NoFile
    /\ tick = 0
    /\ amostras = <<>>
    /\ origem = "nenhuma"
    /\ monthly = <<>>
    /\ limiar = 0

\* a stage saves its output: if caminho.exists(): backup_saida(caminho), then
\* to_csv / ExcelWriter
Sobrescrever ==
    /\ pc = "backup"
    /\ ultima.n < MaxEscritas
    /\ \E copia \in BOOLEAN, escrita \in {"ok", "recusada", "interrompida"} :
         /\ pasta' = backup_saida(artefato, pasta, segundo, copia)
         /\ artefato' = Escrever(artefato, ultima.n + 1, escrita)
         /\ ultima' = [n |-> ultima.n + 1, antes |-> artefato, pastaAntes |-> pasta,
                       ts |-> segundo, copia |-> copia, escrita |-> escrita]
    /\ UNCHANGED <<segundo, pc, normVars, fnVars, pipeVars>>

\* the clock reaches the next second
PassarSegundo ==
    /\ pc = "backup"
    /\ segundo < MaxSegundos
    /\ segundo' = segundo + 1
    /\ UNCHANGED <<artefato, pasta, ultima, pc, normVars, fnVars, pipeVars>>

NextBackup == Sobrescrever \/ PassarSegundo

SpecBackup == InitBackup /\ [][NextBackup]_vars

----------------------------------------------------------------------------
(* Claims on the backups *)

\* the last save overwrote an existing output file
C25_Sobrescreveu == ultima.n > 0 /\ ultima.antes.exists

\* the folder holds a backup with the content the file had before the save
C25_TemCopiaDoAnterior ==
    \E b \in pasta : b.versao = ultima.antes.versao /\ b.integro = ultima.antes.integro

\* C25: whenever a stage overwrites an existing output file, a backup of its
\* previous content is in the folder, so that after a failed write the
\* previous content is still available.
C25_CopiaAntesDeSobrescrever ==
    C25_Sobrescreveu =>
        /\ C25_TemCopiaDoAnterior
        /\ (ultima.escrita # "ok" /\ ultima.antes.integro) =>
              (artefato = ultima.antes \/ C25_TemCopiaDoAnterior)

\* the last call of backup_saida copied the file
C30_Copiou == ultima.n > 0 /\ ultima.antes.exists /\ ultima.copia

\* b was, before the call, among the keep - 1 most recent backups
C30_AindaNoLimite(b) ==
    Cardinality({c \in ultima.pastaAntes : c.ts > b.ts}) < keep - 1

\* C30: the folder never holds more than keep backups of the file, those it
\* holds are the most recent ones, and a successful call adds a backup with
\* the content of the file at the time of the call without replacing an
\* earlier backup that is still within the limit.
C30_RetencaoSemSubstituir ==
    /\ Cardinality(pasta) <= keep
    /\ C30_Copiou =>
          /\ [ts |-> ultima.ts, versao |-> ultima.antes.versao,
              integro |-> ultima.antes.integro] \in pasta
          /\ \A b \in ultima.pastaAntes \ pasta : \A c \in pasta : c.ts >= b.ts
          /\ \A b \in ultima.pastaAntes : C30_AindaNoLimite(b) => b \in pasta

----------------------------------------------------------------------------
(* Claims on the bias the pipeline feeds back to itself *)

\* the ledger rows of type Real
C26_Reais == {i \in DOMAIN ledger.rows : ledger.rows[i].tipo = "Real"}

\* C26: in the executions of a fresh installation, where only the validator
\* writes the ledger, every Real row of the ledger has an error of 0 or
\* null, no month has more than one Real row, the bias loaded from the
\* ledger has no per-month entry and its global value is 0, NaN or absent.
C26_ViesTrivial ==
    /\ \A i \in C26_Reais : ledger.rows[i].errCons \in {0, NaN}
    /\ \A i, j \in C26_Reais : ledger.rows[i].mes = ledger.rows[j].mes => i = j
    /\ \A m \in DOMAIN MESES_ORDEM : ~carregar_vies_historico(ledger).mensal[m].tem
    /\ \/ ~carregar_vies_historico(ledger).global.tem
       \/ carregar_vies_historico(ledger).global.nan
       \/ carregar_vies_historico(ledger).global.num = 0

\* C26 witness: a ledger written by the validator with at least 6 Real rows,
\* one with an error of 0 for a month that consumed, one with a null error;
\* the global bias is 0.
C26_Witness ==
    /\ pc = "fim"
    /\ legado = NoTable
    /\ Cardinality(C26_Reais) >= MinGlobal
    /\ \E i \in C26_Reais : ledger.rows[i].errCons = 0 /\ ledger.rows[i].consReal > 0
    /\ \E i \in C26_Reais : ledger.rows[i].errCons = NaN
    /\ carregar_vies_historico(ledger).global.tem
    /\ ~carregar_vies_historico(ledger).global.nan
    /\ carregar_vies_historico(ledger).global.num = 0

\* C27: a Projetado row has a null corrigido only if its esperado is null;
\* when the ledger gives no usable bias (too few Real rows, or Real rows
\* whose errors are all null) corrigido equals esperado.
C27_CorrigidoNuloSoSeEsperadoNulo ==
    \A i \in DOMAIN est.rows :
        est.rows[i].tipo = "Projetado" =>
            (est.rows[i].ccorr = NaN => est.rows[i].cesp = NaN)

\* C28: in a Corrigido or Projetado row, of the current or the following
\* year, the temperature and hours deltas and trends are each 0 or null; only
\* a Real row can carry another value.
C28_DeltaZeroOuNulo ==
    \A i \in DOMAIN est.rows :
        est.rows[i].tipo \in {"Corrigido", "Projetado"} =>
            /\ est.rows[i].dTemp \in {0, NaN}
            /\ est.rows[i].tTemp \in {0, NaN}
            /\ est.rows[i].dHoras \in {0, NaN}
            /\ est.rows[i].tHoras \in {0, NaN}

\* C28 witness: a table whose Corrigido row has a reference temperature that
\* differs from the temperature measured so far and still a delta of 0,
\* whose Real row of January has a delta that is not 0, and with a Projetado
\* row without reference hours.
C28_Witness ==
    /\ est.exists /\ hist.exists
    /\ relogio.mes = 8
    /\ est.rows[8].tipo = "Corrigido" /\ est.rows[8].dTemp = 0 /\ est.rows[8].tTemp = 0
    /\ \E h \in Range(hist.rows) :
          h.ano = relogio.ano /\ h.mes = 8 /\ h.temp # NaN /\ h.temp # est.rows[8].tempHist
    /\ est.rows[1].tipo = "Real" /\ est.rows[1].dTemp \notin {0, NaN}
    /\ \E i \in DOMAIN est.rows :
          est.rows[i].tipo = "Projetado" /\ est.rows[i].dHoras = NaN
    /\ \E i \in DOMAIN est.rows :
          est.rows[i].tipo = "Projetado" /\ est.rows[i].dHoras = 0

----------------------------------------------------------------------------
(* Claim on the transition cache *)

\* the readable instants of the rows r
C29_Instantes(r) == {x.dt : x \in Range(r)} \ {NaT}

\* C29: the samples the loader returns are those of the export that is in
\* place as 'Dados do Chiller.xlsx', also when that export has just replaced
\* another one and kept its own modification time; the transition file of
\* the replaced export is never what is returned.
C29_AmostrasDoExportAtual ==
    (pc = "estimativas1" /\ chillerFile.exists) =>
        C29_Instantes(amostras) = C29_Instantes(chillerFile.rows)

====
